---- MODULE Spec2Model ----
(***************************************************************************)
(* A model of the widget toolkit's draw queues and event dispatcher.       *)
(*                                                                         *)
(*   - the core DrawQueue          (src/widgets/src/draw/queue.rs)         *)
(*   - the glium backend DrawQueue (src/backend-glium/src/queue.rs)        *)
(*   - the EventDispatcher         (src/widgets/src/event/dispatcher.rs)   *)
(*     driven by the derived Visitable::accept                             *)
(*     (src/proc-macros/src/visitable.rs)                                  *)
(*                                                                         *)
(* Each subsystem has its own specification (SpecQueue, SpecGlium,         *)
(* SpecDispatch); the variables of the other subsystems stay at their      *)
(* initial values.                                                         *)
(***************************************************************************)
EXTENDS Integers, Sequences, FiniteSets, TLC

VARIABLES
    vertices,    \* core DrawQueue.vertices : Seq(Vertex)
    indices,     \* core DrawQueue.indices  : Seq(u32)
    commands,    \* core DrawQueue.commands : Seq(DrawCommand)
    call,        \* the last call made on the core queue, with its result
    prev,        \* the call before it, when that was a successful non-empty push
    frame,       \* the frame calls of draw_elements, when it ran last on the core queue
    gvertices,   \* glium DrawQueue.vertices
    gindices,    \* glium DrawQueue.indices
    gcommands,   \* glium DrawQueue.commands
    gcall,       \* the last call made on the glium queue
    gframe,      \* the frame calls of execute, when it ran last on the glium queue
    layout,      \* bounds of every widget of the tree (relative to its parent)
    win_size,    \* Window.attr.size
    visitor,     \* the EventDispatcher (event, last_inside, inside, result)
    stack,       \* the recursion stack of Visitable::accept
    log,         \* the callbacks made during the current dispatch, in order
    dstate,      \* "idle" | "running" | "done"
    rect_a,      \* clip_inside: the rectangle that is clipped
    rect_b,      \* clip_inside: the rectangle it is clipped against
    clipped,     \* clip_inside: the result, once computed
    IMAGE_ID,    \* the process-wide AtomicUsize the ids are drawn from
    id_pc,       \* per thread: "idle", or "fetched" between fetch_add and return
    id_local,    \* per thread: the local `id` of ImageId::new
    id_issued,   \* the ids fetched so far, in the order of the fetch_add calls
    id_returned, \* the ImageId values returned so far, in the order of return
    decl,        \* the type declaration a derive macro is applied to
    derived,     \* the macro applied and what the derived getter returns
    origins,     \* viewport_origin() of every widget
    painted,     \* the viewport each widget is drawn in, once the window was drawn
    tested,      \* the rectangle each widget is hit-tested against, once computed
    mod_state,   \* GliumWindow.mod_state
    button_state,\* GliumWindow.button_state : ButtonState, the set of bits that are 1
    last_pos,    \* GliumWindow.last_pos
    received,    \* the WindowEvents handed to GliumWindow::push_event, in order
    pushed,      \* what the last of them made of window.push_event, if it was called
    latest,      \* for every button, the kind of the last set/unset call that named it
    wcall        \* the last call on the Window (update, set_size), with what it found

qvars == <<vertices, indices, commands, call, prev, frame>>
gvars == <<gvertices, gindices, gcommands, gcall, gframe>>
dvars == <<layout, win_size, visitor, stack, log, dstate>>
cvars == <<rect_a, rect_b, clipped>>
ivars == <<IMAGE_ID, id_pc, id_local, id_issued, id_returned>>
mvars == <<decl, derived>>
pvars == <<origins, painted, tested>>
nvars == <<mod_state, button_state, last_pos, received, pushed, latest>>
wvars == <<wcall>>
ovars == <<cvars, ivars, mvars, pvars, nvars, wvars>>
vars == <<vertices, indices, commands, call, prev, frame,
          gvertices, gindices, gcommands, gcall, gframe,
          layout, win_size, visitor, stack, log, dstate,
          rect_a, rect_b, clipped,
          IMAGE_ID, id_pc, id_local, id_issued, id_returned,
          decl, derived,
          origins, painted, tested,
          mod_state, button_state, last_pos, received, pushed, latest,
          wcall>>

(***************************************************************************)
(* Bounds of the model.                                                    *)
(***************************************************************************)
MaxVerts == 3        \* vertices held by a queue
MaxCmds == 3         \* commands held by a queue
MaxIndices == 2      \* indices held by the glium queue, which never drops them
MaxCoord == 2        \* largest coordinate of a rectangle handed to clip_inside
MaxSide == 2         \* largest width or height of such a rectangle
MaxIds == 4          \* ids drawn from the process-wide counter
MaxFields == 3       \* fields of a struct a derive macro is applied to
MaxEvents == 3       \* window events handed to GliumWindow::push_event
MaxCalls == 4        \* set and unset calls on a ButtonState
MaxSize == 4         \* largest side of a window size set by hand or of a child's bounds

(***************************************************************************)
(* Geometry values.                                                        *)
(***************************************************************************)
Rect(x, y, w, h) == [x |-> x, y |-> y, w |-> w, h |-> h]

\* Vertex::translate: a vertex is its position <<x, y>>.
translate(v, offset) == <<v[1] + offset[1], v[2] + offset[2]>>

(***************************************************************************)
(* Inputs of the draw queues.                                              *)
(***************************************************************************)
Primitives == {"Triangles", "Lines"}
Textures == {"None", "img1"}
Viewports == {Rect(0, 0, 4, 4), Rect(1, 2, 4, 4)}
Colors == {"black"}

BaseState == [primitive |-> "Triangles", texture |-> "None", viewport |-> Rect(0, 0, 4, 4)]

\* the render states pushed: the base state and the three states that differ
\* from it in the primitive kind, in the texture or in the viewport
RenderStates ==
    {st \in [primitive : Primitives, texture : Textures, viewport : Viewports] :
        Cardinality({f \in {"primitive", "texture", "viewport"} : st[f] # BaseState[f]}) <= 1}

\* the n vertices a push supplies: pairwise distinct, so order is observable
VertsOfLen(n) == [k \in 1..n |-> <<k, 2 * k>>]

Geometry(n, idxs) == [verts |-> VertsOfLen(n), idxs |-> idxs]

\* vertex and index lists with every index in range: one or two vertices with
\* no index, one index, two indices out of order
AcceptedGeometry == {Geometry(1, <<>>), Geometry(1, <<0>>), Geometry(2, <<1, 0>>)}

\* no vertices, without and with indices
EmptyGeometry == {Geometry(0, <<>>), Geometry(0, <<0>>)}

\* an index out of range in the second place, in the first of two bad places,
\* and equal to the vertex count
RejectedGeometry == {Geometry(1, <<0, 1>>), Geometry(2, <<3, 2>>), Geometry(2, <<0, 2>>)}

\* the push_prim calls made: accepted lists in every render state; empty and
\* rejected lists, for which push_prim returns before it reads the state, in
\* the base state
PushInputs ==
    {[st |-> st, g |-> g] : st \in RenderStates, g \in AcceptedGeometry}
        \cup {[st |-> BaseState, g |-> g] : g \in EmptyGeometry \cup RejectedGeometry}

\* the lists pushed to the glium queue: no vertices, and one or two vertices
\* with every index in range
GliumPushInputs ==
    {Geometry(0, <<>>), Geometry(1, <<>>), Geometry(1, <<0>>), Geometry(2, <<1, 0>>)}

Ok == [tag |-> "Ok"]
IndexOutOfBounds(idx, nvert) == [tag |-> "IndexOutOfBounds", idx |-> idx, nvert |-> nvert]

(***************************************************************************)
(* The core DrawQueue, src/widgets/src/draw/queue.rs.                      *)
(* A queue value is [vertices, indices, commands].                         *)
(***************************************************************************)
Queue(v, i, c) == [vertices |-> v, indices |-> i, commands |-> c]

CmdClear(color) == [kind |-> "Clear", color |-> color]
CmdDraw(primitive, idx_offset, idx_len, texture, viewport) ==
    [kind |-> "Draw", primitive |-> primitive, idx_offset |-> idx_offset,
     idx_len |-> idx_len, texture |-> texture, viewport |-> viewport]

\* DrawQueue::new / Default
new_queue == Queue(<<>>, <<>>, <<>>)

\* mutant: clear() forgets the command list
clear_keeps_commands(q) == Queue(<<>>, <<>>, q.commands)

\* mutant: clear() leaves the index buffer as it is
clear_keeps_indices(q) == Queue(<<>>, q.indices, <<>>)

\* DrawQueue::clear
clear(q) == Queue(<<>>, <<>>, <<>>)

\* mutant: the viewport is left out of the comparison
get_last_cmd_ignoring_viewport(cmds, primitive, viewport, texture) ==
    IF cmds # <<>> /\ cmds[Len(cmds)].kind = "Draw"
       /\ cmds[Len(cmds)].primitive = primitive
       /\ cmds[Len(cmds)].texture = texture
    THEN Len(cmds)
    ELSE 0

\* mutant: the list is searched back for the latest compatible Draw command
get_last_cmd_searching_back(cmds, primitive, viewport, texture) ==
    LET same == {k \in 1..Len(cmds) :
                    /\ cmds[k].kind = "Draw"
                    /\ cmds[k].primitive = primitive
                    /\ cmds[k].texture = texture
                    /\ cmds[k].viewport = viewport}
    IN  IF same # {} THEN CHOOSE k \in same : \A j \in same : j <= k ELSE 0

\* DrawQueue::get_last_cmd_if_compatible: the position of the last command
\* when it is a Draw with the same state, 0 for None.
get_last_cmd_if_compatible(cmds, primitive, viewport, texture) ==
    IF cmds # <<>> /\ cmds[Len(cmds)].kind = "Draw"
       /\ cmds[Len(cmds)].primitive = primitive
       /\ cmds[Len(cmds)].texture = texture
       /\ cmds[Len(cmds)].viewport = viewport
    THEN Len(cmds)
    ELSE 0

\* DrawQueue::push_clear
push_clear(q, color) == [q EXCEPT !.commands = Append(@, CmdClear(color))]

\* indices.iter().find(|&&i| i >= nvert): position of the first such index, 0 if none
find_out_of_range(idxs, nvert) ==
    IF \E k \in 1..Len(idxs) : idxs[k] >= nvert
    THEN CHOOSE k \in 1..Len(idxs) :
            /\ idxs[k] >= nvert
            /\ \A j \in 1..(k - 1) : idxs[j] < nvert
    ELSE 0

\* mutant: the indices are appended as supplied
push_prim_append_no_rebase(q, primitive, verts, idxs, texture, viewport) ==
    LET offset == <<viewport.x, viewport.y>>
        last == get_last_cmd_if_compatible(q.commands, primitive, viewport, texture)
    IN  Queue(q.vertices \o [k \in 1..Len(verts) |-> translate(verts[k], offset)],
              q.indices \o idxs,
              IF last # 0
              THEN [q.commands EXCEPT ![last].idx_len = @ + Len(idxs)]
              ELSE Append(q.commands,
                          CmdDraw(primitive, Len(q.indices), Len(idxs), texture, viewport)))

\* self.vertices.extend(vertices.iter().map(|v| v.translate(offset)))
\* ... (commands) ... self.indices.extend(indices.iter().map(|i| i + base_vert))
push_prim_append(q, primitive, verts, idxs, texture, viewport) ==
    LET base_vert == Len(q.vertices)
        offset == <<viewport.x, viewport.y>>
        last == get_last_cmd_if_compatible(q.commands, primitive, viewport, texture)
    IN  Queue(q.vertices \o [k \in 1..Len(verts) |-> translate(verts[k], offset)],
              q.indices \o [k \in 1..Len(idxs) |-> idxs[k] + base_vert],
              IF last # 0
              THEN [q.commands EXCEPT ![last].idx_len = @ + Len(idxs)]
              ELSE Append(q.commands,
                          CmdDraw(primitive, Len(q.indices), Len(idxs), texture, viewport)))

\* mutant: the range check comes after the vertices were appended
push_prim_partial(q, primitive, verts, idxs, texture, viewport) ==
    LET nvert == Len(verts)
        bad == find_out_of_range(idxs, nvert)
    IN  IF nvert = 0 THEN [q |-> q, result |-> Ok]
        ELSE IF bad # 0
        THEN [q |-> [q EXCEPT !.vertices = @ \o verts],
              result |-> IndexOutOfBounds(idxs[bad], nvert)]
        ELSE [q |-> push_prim_append(q, primitive, verts, idxs, texture, viewport),
              result |-> Ok]

\* mutant: no early return for an empty vertex list
push_prim_no_empty_check(q, primitive, verts, idxs, texture, viewport) ==
    LET nvert == Len(verts)
        bad == find_out_of_range(idxs, nvert)
    IN  IF bad # 0
        THEN [q |-> q, result |-> IndexOutOfBounds(idxs[bad], nvert)]
        ELSE [q |-> push_prim_append(q, primitive, verts, idxs, texture, viewport),
              result |-> Ok]

\* mutant: a merged command keeps its old idx_len
push_prim_no_extend(q, primitive, verts, idxs, texture, viewport) ==
    LET nvert == Len(verts)
        bad == find_out_of_range(idxs, nvert)
        last == get_last_cmd_if_compatible(q.commands, primitive, viewport, texture)
        r == push_prim_append(q, primitive, verts, idxs, texture, viewport)
    IN  IF nvert = 0 THEN [q |-> q, result |-> Ok]
        ELSE IF bad # 0
        THEN [q |-> q, result |-> IndexOutOfBounds(idxs[bad], nvert)]
        ELSE [q |-> IF last # 0 THEN [r EXCEPT !.commands = q.commands] ELSE r,
              result |-> Ok]

\* mutant: the indices are not checked against the vertex count
push_prim_unchecked(q, primitive, verts, idxs, texture, viewport) ==
    LET nvert == Len(verts)
    IN  IF nvert = 0 THEN [q |-> q, result |-> Ok]
        ELSE [q |-> push_prim_append(q, primitive, verts, idxs, texture, viewport),
              result |-> Ok]

\* DrawQueue::push_prim: the queue after the call and the value returned.
push_prim(q, primitive, verts, idxs, texture, viewport) ==
    LET nvert == Len(verts)
        bad == find_out_of_range(idxs, nvert)
    IN  IF nvert = 0 THEN [q |-> q, result |-> Ok]
        ELSE IF bad # 0
        THEN [q |-> q, result |-> IndexOutOfBounds(idxs[bad], nvert)]
        ELSE [q |-> push_prim_append(q, primitive, verts, idxs, texture, viewport),
              result |-> Ok]

(***************************************************************************)
(* The glium backend DrawQueue, src/backend-glium/src/queue.rs.            *)
(* Its vertices arrive already transformed; a texture is compared by id.   *)
(***************************************************************************)
GCmdClear(color, viewport) == [kind |-> "Clear", color |-> color, viewport |-> viewport]
GCmdTriangles(start, end, texture, viewport) ==
    [kind |-> "Triangles", idx_range |-> [start |-> start, end |-> end],
     texture |-> texture, viewport |-> viewport]

\* DrawQueue::new (glium)
glium_new_queue == Queue(<<>>, <<>>, <<>>)

\* DrawQueue::clear (glium): vertices and commands are cleared, indices are not
glium_clear(q) == Queue(<<>>, q.indices, <<>>)

\* DrawQueue::push_clear (glium)
glium_push_clear(q, color, viewport) ==
    [q EXCEPT !.commands = Append(@, GCmdClear(color, viewport))]

\* DrawCmdData::compatible_with
compatible_with(cmd, viewport, texture) ==
    cmd.viewport = viewport /\ cmd.texture = texture

\* DrawQueue::push_tris (glium): no validation and no early return
push_tris(q, verts, idxs, texture, viewport) ==
    LET base_vert == Len(q.vertices)
        base_idx == Len(q.indices)
        new_indices == q.indices \o [k \in 1..Len(idxs) |-> idxs[k] + base_vert]
        n == Len(q.commands)
    IN  Queue(q.vertices \o verts,
              new_indices,
              IF n > 0 /\ q.commands[n].kind = "Triangles"
                 /\ compatible_with(q.commands[n], viewport, texture)
              THEN [q.commands EXCEPT ![n].idx_range.end = Len(new_indices)]
              ELSE Append(q.commands,
                          GCmdTriangles(base_idx, Len(new_indices), texture, viewport)))

(***************************************************************************)
(* Geometry used by the dispatcher.                                        *)
(* A Pointd (f64 coordinates) is [x2, y2, finite]: the coordinates in      *)
(* half units, and whether both are finite and within the i32 range.       *)
(* An Option is [some |-> FALSE] or [some |-> TRUE, val |-> v].            *)
(***************************************************************************)
None == [some |-> FALSE]
Some(v) == [some |-> TRUE, val |-> v]

Pointd(x2, y2) == [x2 |-> x2, y2 |-> y2, finite |-> TRUE]
NotFinite == [x2 |-> 0, y2 |-> 0, finite |-> FALSE]

\* num_traits::cast::<f64, i32>: the fraction is dropped (towards zero)
to_i32(h2) == IF h2 >= 0 THEN h2 \div 2 ELSE -((-h2) \div 2)

\* Point::cast_checked::<i32>
cast_checked(p) ==
    IF p.finite THEN Some([x |-> to_i32(p.x2), y |-> to_i32(p.y2)]) ELSE None

\* Rect::end_x, Rect::end_y
end_x(rect) == rect.x + rect.w
end_y(rect) == rect.y + rect.h

\* Point::inside
inside(p, rect) ==
    LET c == cast_checked(p)
    IN  IF c.some
        THEN /\ c.val.x >= rect.x /\ c.val.x <= end_x(rect)
             /\ c.val.y >= rect.y /\ c.val.y <= end_y(rect)
        ELSE FALSE

\* Rect::offset
offset(rect, pos) == Rect(rect.x + pos.x, rect.y + pos.y, rect.w, rect.h)

Max(a, b) == IF a >= b THEN a ELSE b
Min(a, b) == IF a <= b THEN a ELSE b

\* mutant: rectangles that only touch are given an empty intersection rectangle
clip_inside_touching(a, b) ==
    LET x == Max(a.x, b.x)
        y == Max(a.y, b.y)
        w == Min(end_x(a), end_x(b)) - x
        h == Min(end_y(a), end_y(b)) - y
    IN  IF w >= 0 /\ h >= 0 THEN Some(Rect(x, y, w, h)) ELSE None

\* Rect::clip_inside: the intersection, None when it has no positive area
clip_inside(a, b) ==
    LET x == Max(a.x, b.x)
        y == Max(a.y, b.y)
        w == Min(end_x(a), end_x(b)) - x
        h == Min(end_y(a), end_y(b)) - y
    IN  IF w > 0 /\ h > 0 THEN Some(Rect(x, y, w, h)) ELSE None

\* From<Size> for Rect
size_rect(size) == Rect(0, 0, size.w, size.h)

(***************************************************************************)
(* The widget tree: window.child is widget 1; a widget's id is its number. *)
(* Children are listed in the order the derived accept visits them.        *)
(***************************************************************************)
Root == 1

\* the declared fields of each widget struct, in declaration order: the tag a
\* field carries and the widgets it holds (one for a visit_child field, a
\* collection in iteration order for a visit_iter field)
Field(tag, items) == [tag |-> tag, items |-> items]
Fields ==
    << <<Field("visit_iter", <<2>>), Field("none", <<>>), Field("visit_child", <<3>>)>>,
       <<Field("visit_child", <<4>>)>>,
       <<Field("none", <<>>)>>,
       <<>> >>

\* find_tagged_fields: the fields carrying `tag`, each with its position
find_tagged_fields(fields, tag) ==
    LET at == SelectSeq([k \in 1..Len(fields) |-> k], LAMBDA k : fields[k].tag = tag)
    IN  [j \in 1..Len(at) |-> [i |-> at[j], items |-> fields[at[j]].items]]

\* mutant: the statements keep the order child fields, then iter fields
unsorted(stmts) == stmts

\* expanded.sort_unstable_by(|(a, _), (b, _)| a.cmp(b))
sort_by_index(stmts) ==
    [k \in 1..Len(stmts) |->
        CHOOSE e \in {stmts[j] : j \in 1..Len(stmts)} :
            Cardinality({j \in 1..Len(stmts) : stmts[j].i <= e.i}) = k]

RECURSIVE flatten(_)
flatten(stmts) == IF stmts = <<>> THEN <<>> ELSE Head(stmts).items \o flatten(Tail(stmts))

\* the child statements of the derived accept: the visit_child statements
\* chained with the visit_iter statements, sorted by field position; the
\* widgets they call accept on, in order
accept_stmts(fields) ==
    sort_by_index(find_tagged_fields(fields, "visit_child")
                    \o find_tagged_fields(fields, "visit_iter"))

Children == [n \in DOMAIN Fields |-> flatten(accept_stmts(Fields[n]))]
Nodes == DOMAIN Children
Parent(n) == CHOOSE m \in Nodes : \E k \in DOMAIN Children[m] : Children[m][k] = n

WindowSize == [w |-> 8, h |-> 8]

\* the bounds a widget may have, relative to its parent: the root fills the
\* window or hangs over its left edge; widget 2 lies inside the root or
\* outside the window; widget 3 overlaps widget 2 or has no width; widget 4
\* lies inside widget 2 or outside it
Layouts ==
    {<<r1, r2, r3, r4>> :
        r1 \in {Rect(0, 0, 8, 8), Rect(-2, 0, 6, 6)},
        r2 \in {Rect(1, 1, 4, 4), Rect(10, 1, 2, 2)},
        r3 \in {Rect(3, 3, 4, 4), Rect(0, 0, 0, 3)},
        r4 \in {Rect(1, 1, 2, 2), Rect(5, 5, 2, 2)}}

(***************************************************************************)
(* Events, src/widgets/src/event.rs.                                       *)
(***************************************************************************)
KeyKinds == {"Keyboard", "Character"}
\* MouseMovedAxis stands for MouseMoved(Scroll | Pressure | Tilt)
PointerKinds == {"MouseMovedPosition", "MouseMovedAxis", "MouseButton", "FileDropped"}
OtherKinds == {"PointerInside", "Resized", "Moved", "Focused", "CloseRequest",
               "Created", "Destroyed"}
EvKinds == KeyKinds \cup PointerKinds \cup OtherKinds

\* (2.5, 2.5)  (4, 4)  (7.5, 7.5)  (-0.5, 1)  (10, 10)  NaN
Positions == {Pointd(5, 5), Pointd(8, 8), Pointd(15, 15), Pointd(-1, 2),
              Pointd(20, 20), NotFinite}

Events == [kind : EvKinds, abs_pos : Positions]

Answers == {"Pass", "Consumed"}

(***************************************************************************)
(* The EventDispatcher, src/widgets/src/event/dispatcher.rs.               *)
(* A dispatcher value is [event, last_inside, inside, result]; a WidgetId  *)
(* option is the id, or 0 for None.  `answer` is what the widget's         *)
(* handle_event returns if it is called.                                   *)
(***************************************************************************)
Delivered(d, answer) == [d |-> d, called |-> TRUE, result |-> answer]
NotDelivered(d) == [d |-> d, called |-> FALSE, result |-> "Pass"]

\* mutant: a mouse-button event skips the hit test
dispatch_button_no_hit_test(d, id, abs_bounds, answer) ==
    LET pos == d.event.abs_pos
        kind == d.event.kind
    IN  CASE kind \in KeyKinds -> Delivered(d, answer)
          [] kind = "MouseMovedPosition" ->
                IF inside(pos, abs_bounds)
                THEN Delivered([d EXCEPT !.inside = IF @ = 0 THEN id ELSE @], answer)
                ELSE NotDelivered(d)
          [] kind = "MouseButton" -> Delivered(d, answer)
          [] kind \in {"MouseMovedAxis", "FileDropped"} ->
                IF inside(pos, abs_bounds) THEN Delivered(d, answer) ELSE NotDelivered(d)
          [] OTHER -> NotDelivered(d)

\* mutant: a keyboard event is hit-tested like a pointer event
dispatch_keyboard_hit_test(d, id, abs_bounds, answer) ==
    LET pos == d.event.abs_pos
        kind == d.event.kind
    IN  CASE kind = "Character" -> Delivered(d, answer)
          [] kind = "MouseMovedPosition" ->
                IF inside(pos, abs_bounds)
                THEN Delivered([d EXCEPT !.inside = IF @ = 0 THEN id ELSE @], answer)
                ELSE NotDelivered(d)
          [] kind \in {"Keyboard", "MouseMovedAxis", "MouseButton", "FileDropped"} ->
                IF inside(pos, abs_bounds) THEN Delivered(d, answer) ELSE NotDelivered(d)
          [] OTHER -> NotDelivered(d)

\* mutant: the commented-out PointerInside arm is live
dispatch_pointer_inside_live(d, id, abs_bounds, answer) ==
    LET pos == d.event.abs_pos
        kind == d.event.kind
    IN  CASE kind \in KeyKinds -> Delivered(d, answer)
          [] kind = "MouseMovedPosition" ->
                IF inside(pos, abs_bounds)
                THEN Delivered([d EXCEPT !.inside = IF @ = 0 THEN id ELSE @], answer)
                ELSE NotDelivered(d)
          [] kind \in {"MouseMovedAxis", "MouseButton", "FileDropped"} ->
                IF inside(pos, abs_bounds) THEN Delivered(d, answer) ELSE NotDelivered(d)
          [] kind = "PointerInside" -> Delivered(d, answer)
          [] OTHER -> NotDelivered(d)

\* EventDispatcher::dispatch
dispatch(d, id, abs_bounds, answer) ==
    LET pos == d.event.abs_pos
        kind == d.event.kind
    IN  CASE kind \in KeyKinds -> Delivered(d, answer)
          [] kind = "MouseMovedPosition" ->
                IF inside(pos, abs_bounds)
                THEN Delivered([d EXCEPT !.inside = IF @ = 0 THEN id ELSE @], answer)
                ELSE NotDelivered(d)
          [] kind \in {"MouseMovedAxis", "MouseButton", "FileDropped"} ->
                IF inside(pos, abs_bounds) THEN Delivered(d, answer) ELSE NotDelivered(d)
          [] OTHER -> NotDelivered(d)

\* <EventDispatcher as Visitor>::visit: [d, called, err], err the id in
\* Err(id), 0 for Ok(())
visit(d, id, ctx, answer) ==
    IF ~ctx.some
    THEN [d |-> d, called |-> FALSE, err |-> 0]
    ELSE LET r == dispatch(d, id, ctx.val, answer)
         IN  [d |-> r.d, called |-> r.called,
              err |-> IF r.result = "Consumed" THEN id ELSE 0]

\* mutant: the child's rectangle is offset but not clipped to the viewport
new_context_unclipped(child_bounds, parent_ctx) ==
    IF parent_ctx.some
    THEN Some(offset(child_bounds, parent_ctx.val))
    ELSE None

\* <EventDispatcher as Visitor>::new_context
new_context(child_bounds, parent_ctx) ==
    IF parent_ctx.some
    THEN clip_inside(offset(child_bounds, parent_ctx.val), parent_ctx.val)
    ELSE None

\* Visitor::finished for the dispatcher: a widget has consumed the event
finished(d) == d.result # 0

\* Visitor::visit_before for the dispatcher: nothing happens on the way down
visit_before(d, id, ctx) == d

\* Visitor::visit_after for the dispatcher: the widget is offered the event
\* on the way up, and the id of a consumer is kept as the result
visit_after(d, id, ctx, answer) ==
    LET r == visit(d, id, ctx, answer)
    IN  [d |-> [r.d EXCEPT !.result = r.err], called |-> r.called,
         answer |-> IF r.called THEN answer ELSE "Pass"]

\* EventDispatcher::dispatch_event: a fresh dispatch of `event`
dispatch_event(d, event) ==
    [event |-> event, last_inside |-> d.inside, inside |-> 0, result |-> 0]

\* EventDispatcher::default
new_dispatcher ==
    [event |-> [kind |-> "Created", abs_pos |-> NotFinite],
     last_inside |-> 0, inside |-> 0, result |-> 0]

(***************************************************************************)
(* The derived Visitable::accept, src/proc-macros/src/visitable.rs.        *)
(***************************************************************************)
\* mutant: a parent goes on after a child's accept has finished the visitor
after_child_never_returns(v) == FALSE

\* `if visitor.finished() { return visitor }` after a child's accept
after_child_returns(v) == finished(v)

\* `if visitor.finished() { return visitor }` on entry
on_entry_returns(v) == finished(v)

(***************************************************************************)
(* Initial states.                                                         *)
(***************************************************************************)
NoCall == [op |-> "new"]

(***************************************************************************)
(* Execution of a queue on a frame: DrawQueue::execute of the glium queue  *)
(* (backend-glium/src/queue.rs) and GliumWindow::draw_elements over the    *)
(* core queue (backend-glium/src/lib.rs).  A frame call is the command it  *)
(* was issued for, the call made and the scissor rectangle handed to it.   *)
(***************************************************************************)
NoFrame == [ran |-> FALSE]
FrameOf(win, calls) == [ran |-> TRUE, win |-> win, calls |-> calls]

\* the window sizes a frame is drawn at: no area, smaller than every
\* viewport, and cutting the viewports
WinSizes == {[w |-> 0, h |-> 0], [w |-> 1, h |-> 2], [w |-> 3, h |-> 3]}

\* to_glium_rect: the rectangle counted from the bottom of the window
to_glium_rect(rect, win_height) ==
    [left |-> rect.x, bottom |-> win_height - rect.h - rect.y,
     width |-> rect.w, height |-> rect.h]

FrameCall(k, fn, scissor) == [cmd |-> k, fn |-> fn, scissor |-> scissor]

\* mutant: a command whose viewport misses the window is issued unclipped
RECURSIVE execute_no_skip(_, _, _)
execute_no_skip(cmds, k, wsize) ==
    IF k > Len(cmds) THEN <<>>
    ELSE LET vp == clip_inside(cmds[k].viewport, size_rect(wsize))
             fn == IF cmds[k].kind = "Clear" THEN "clear" ELSE "draw"
         IN  <<FrameCall(k, fn, IF vp.some THEN Some(to_glium_rect(vp.val, wsize.h))
                                ELSE None)>>
                \o execute_no_skip(cmds, k + 1, wsize)

\* DrawQueue::execute (glium): the calls made on the frame for the commands
\* from the k-th on
RECURSIVE execute(_, _, _)
execute(cmds, k, wsize) ==
    IF k > Len(cmds) THEN <<>>
    ELSE LET vp == clip_inside(cmds[k].viewport, size_rect(wsize))
             fn == IF cmds[k].kind = "Clear" THEN "clear" ELSE "draw"
         IN  (IF vp.some
              THEN <<FrameCall(k, fn, Some(to_glium_rect(vp.val, wsize.h)))>>
              ELSE <<>>)
                \o execute(cmds, k + 1, wsize)

\* GliumWindow::draw_elements: a Clear command of the core queue has no
\* viewport and clears the whole frame
RECURSIVE draw_elements(_, _, _)
draw_elements(cmds, k, wsize) ==
    IF k > Len(cmds) THEN <<>>
    ELSE (IF cmds[k].kind = "Clear"
          THEN <<FrameCall(k, "clear_color", None)>>
          ELSE LET scissor == clip_inside(cmds[k].viewport, size_rect(wsize))
               IN  IF scissor.some
                   THEN <<FrameCall(k, "draw", Some(to_glium_rect(scissor.val, wsize.h)))>>
                   ELSE <<>>)
            \o draw_elements(cmds, k + 1, wsize)

QInit ==
    /\ vertices = new_queue.vertices
    /\ indices = new_queue.indices
    /\ commands = new_queue.commands
    /\ call = NoCall
    /\ prev = NoCall
    /\ frame = NoFrame

GInit ==
    /\ gvertices = glium_new_queue.vertices
    /\ gindices = glium_new_queue.indices
    /\ gcommands = glium_new_queue.commands
    /\ gcall = NoCall
    /\ gframe = NoFrame

(***************************************************************************)
(* Calls on the core queue.  Every call records its arguments, its result  *)
(* and the buffer lengths it found.                                        *)
(***************************************************************************)
CurQueue == Queue(vertices, indices, commands)

\* a successful push_prim of at least one vertex
GoodPush(c) == c.op = "push_prim" /\ Len(c.vertices) > 0 /\ c.result.tag = "Ok"

\* the history kept of the call before the last one
Remember(c) == IF GoodPush(c) THEN c ELSE NoCall

PreLens == [nv |-> Len(vertices), ni |-> Len(indices), nc |-> Len(commands)]

SetQueue(q) ==
    /\ vertices' = q.vertices
    /\ indices' = q.indices
    /\ commands' = q.commands
    /\ frame' = NoFrame

Clear ==
    /\ SetQueue(clear(CurQueue))
    /\ call' = [op |-> "clear", pre |-> PreLens]
    /\ prev' = Remember(call)
    /\ UNCHANGED <<gvars, dvars, ovars>>

PushClear(color) ==
    /\ Len(commands) < MaxCmds
    /\ SetQueue(push_clear(CurQueue, color))
    /\ call' = [op |-> "push_clear", color |-> color, pre |-> PreLens]
    /\ prev' = Remember(call)
    /\ UNCHANGED <<gvars, dvars, ovars>>

PushPrim(primitive, verts, idxs, texture, viewport) ==
    LET r == push_prim(CurQueue, primitive, verts, idxs, texture, viewport)
    IN  /\ Len(r.q.vertices) <= MaxVerts
        /\ Len(r.q.commands) <= MaxCmds
        /\ SetQueue(r.q)
        /\ call' = [op |-> "push_prim", primitive |-> primitive, vertices |-> verts,
                    indices |-> idxs, texture |-> texture, viewport |-> viewport,
                    result |-> r.result, pre |-> PreLens]
        /\ prev' = Remember(call)
        /\ UNCHANGED <<gvars, dvars, ovars>>

NextQueue ==
    \/ Clear
    \/ \E color \in Colors : PushClear(color)
    \/ \E c \in PushInputs :
            PushPrim(c.st.primitive, c.g.verts, c.g.idxs, c.st.texture, c.st.viewport)

(***************************************************************************)
(* Calls on the glium queue.                                               *)
(***************************************************************************)
GCurQueue == Queue(gvertices, gindices, gcommands)
GPreLens == [nv |-> Len(gvertices), ni |-> Len(gindices), nc |-> Len(gcommands)]

GSetQueue(q) ==
    /\ gvertices' = q.vertices
    /\ gindices' = q.indices
    /\ gcommands' = q.commands
    /\ gframe' = NoFrame

GliumClear ==
    /\ GSetQueue(glium_clear(GCurQueue))
    /\ gcall' = [op |-> "clear", pre |-> GPreLens]
    /\ UNCHANGED <<qvars, dvars, ovars>>

GliumPushClear(color, viewport) ==
    /\ Len(gcommands) < MaxCmds
    /\ GSetQueue(glium_push_clear(GCurQueue, color, viewport))
    /\ gcall' = [op |-> "push_clear", color |-> color, viewport |-> viewport,
                 pre |-> GPreLens]
    /\ UNCHANGED <<qvars, dvars, ovars>>

GliumPushTris(verts, idxs, texture, viewport) ==
    LET q == push_tris(GCurQueue, verts, idxs, texture, viewport)
    IN  /\ Len(q.vertices) <= MaxVerts
        /\ Len(q.commands) <= MaxCmds
        /\ Len(q.indices) <= MaxIndices
        /\ GSetQueue(q)
        /\ gcall' = [op |-> "push_tris", vertices |-> verts, indices |-> idxs,
                     texture |-> texture, viewport |-> viewport, pre |-> GPreLens]
        /\ UNCHANGED <<qvars, dvars, ovars>>

NextGlium ==
    \/ GliumClear
    \/ \E color \in Colors, viewport \in Viewports : GliumPushClear(color, viewport)
    \/ \E st \in {r \in RenderStates : r.primitive = "Triangles"}, g \in GliumPushInputs :
            GliumPushTris(g.verts, g.idxs, st.texture, st.viewport)

(***************************************************************************)
(* Drawing a frame.  A window draws through one of the two queues: the     *)
(* core queue with draw_elements, or the glium queue with execute.         *)
(***************************************************************************)
DrawElements(win) ==
    /\ call # NoCall
    /\ frame' = FrameOf(win, draw_elements(commands, 1, win))
    /\ UNCHANGED <<vertices, indices, commands, call, prev, gvars, dvars, ovars>>

Execute(win) ==
    /\ gcall # NoCall
    /\ gframe' = FrameOf(win, execute(gcommands, 1, win))
    /\ UNCHANGED <<gvertices, gindices, gcommands, gcall, qvars, dvars, ovars>>

CoreUnused == call = NoCall /\ frame = NoFrame
GliumUnused == gcall = NoCall /\ gframe = NoFrame

\* the pushes of a frame: one vertex, with and without an index
FrameGeometry == {Geometry(1, <<>>), Geometry(1, <<0>>)}

NextFrame ==
    \/ GliumUnused /\ Clear
    \/ GliumUnused /\ \E color \in Colors : PushClear(color)
    \/ GliumUnused /\ \E st \in RenderStates, g \in FrameGeometry :
            PushPrim(st.primitive, g.verts, g.idxs, st.texture, st.viewport)
    \/ GliumUnused /\ \E win \in WinSizes : DrawElements(win)
    \/ CoreUnused /\ GliumClear
    \/ CoreUnused /\ \E color \in Colors, viewport \in Viewports :
            GliumPushClear(color, viewport)
    \/ CoreUnused /\ \E st \in {r \in RenderStates : r.primitive = "Triangles"},
                        g \in FrameGeometry :
            GliumPushTris(g.verts, g.idxs, st.texture, st.viewport)
    \/ CoreUnused /\ \E win \in WinSizes : Execute(win)

(***************************************************************************)
(* Event dispatch: Window::push_event runs EventDispatcher::dispatch_event *)
(* and the derived accept over the tree.  The recursion of accept is the   *)
(* stack; a frame is [node, prev_ctx, ctx, pc] with pc = 0 on entry and    *)
(* pc = k when the k-th child is the next to be visited.                   *)
(***************************************************************************)
DInitWith(l) ==
    /\ layout = l
    /\ win_size = WindowSize
    /\ visitor = new_dispatcher
    /\ stack = <<>>
    /\ log = <<>>
    /\ dstate = "idle"

DIdleLayout == <<Rect(0, 0, 8, 8), Rect(1, 1, 4, 4), Rect(3, 3, 4, 4), Rect(1, 1, 2, 2)>>

DIdle == DInitWith(DIdleLayout)

DInit == \E l \in Layouts : DInitWith(l)

Top == stack[Len(stack)]
Frame(node, prev_ctx) == [node |-> node, prev_ctx |-> prev_ctx, ctx |-> None, pc |-> 0]
Entry(cb, node, answer) == [cb |-> cb, node |-> node, answer |-> answer]

\* accept returns to its caller; the outermost return ends push_event
Return ==
    /\ stack' = SubSeq(stack, 1, Len(stack) - 1)
    /\ dstate' = IF Len(stack) = 1 THEN "done" ELSE "running"

\* Window::push_event
PushEvent(event) ==
    /\ dstate # "running"
    /\ visitor' = dispatch_event(visitor, event)
    /\ stack' = <<Frame(Root, Some(size_rect(win_size)))>>
    /\ log' = <<>>
    /\ dstate' = "running"
    /\ UNCHANGED <<layout, win_size, qvars, gvars, ovars>>

\* mutant: accept offers the widget the event before it visits the children
AcceptEnterDelivers ==
    /\ dstate = "running"
    /\ Top.pc = 0
    /\ LET ctx == new_context(layout[Top.node], Top.prev_ctx)
       IN  IF on_entry_returns(visitor) \/ ~ctx.some
           THEN /\ Return
                /\ UNCHANGED <<visitor, log>>
           ELSE LET r == visit_after(visitor, Top.node, ctx, "Pass")
                IN  /\ visitor' = r.d
                    /\ log' = log \o <<Entry("visit_before", Top.node, "Pass")>>
                                  \o (IF r.called
                                      THEN <<Entry("handle_event", Top.node, r.answer)>>
                                      ELSE <<>>)
                    /\ stack' = [stack EXCEPT ![Len(stack)] = [@ EXCEPT !.ctx = ctx, !.pc = 1]]
                    /\ dstate' = dstate
    /\ UNCHANGED <<layout, win_size, qvars, gvars, ovars>>

\* mutant: accept goes on with a node for which new_context gave no context
AcceptEnterNoPrune ==
    /\ dstate = "running"
    /\ Top.pc = 0
    /\ LET ctx == new_context(layout[Top.node], Top.prev_ctx)
       IN  IF on_entry_returns(visitor)
           THEN /\ Return
                /\ UNCHANGED <<visitor, log>>
           ELSE /\ visitor' = visit_before(visitor, Top.node, ctx)
                /\ log' = Append(log, Entry("visit_before", Top.node, "Pass"))
                /\ stack' = [stack EXCEPT ![Len(stack)] = [@ EXCEPT !.ctx = ctx, !.pc = 1]]
                /\ dstate' = dstate
    /\ UNCHANGED <<layout, win_size, qvars, gvars, ovars>>

\* accept, on entry: the finished check, new_context, visit_before
AcceptEnter ==
    /\ dstate = "running"
    /\ Top.pc = 0
    /\ LET ctx == new_context(layout[Top.node], Top.prev_ctx)
       IN  IF on_entry_returns(visitor) \/ ~ctx.some
           THEN /\ Return
                /\ UNCHANGED <<visitor, log>>
           ELSE /\ visitor' = visit_before(visitor, Top.node, ctx)
                /\ log' = Append(log, Entry("visit_before", Top.node, "Pass"))
                /\ stack' = [stack EXCEPT ![Len(stack)] = [@ EXCEPT !.ctx = ctx, !.pc = 1]]
                /\ dstate' = dstate
    /\ UNCHANGED <<layout, win_size, qvars, gvars, ovars>>

\* accept, the next child field: child.accept(visitor, &ctx)
AcceptChild ==
    /\ dstate = "running"
    /\ Top.pc >= 1
    /\ Top.pc <= Len(Children[Top.node])
    /\ ~(Top.pc > 1 /\ after_child_returns(visitor))
    /\ stack' = Append([stack EXCEPT ![Len(stack)].pc = @ + 1],
                       Frame(Children[Top.node][Top.pc], Top.ctx))
    /\ UNCHANGED <<visitor, log, dstate, layout, win_size, qvars, gvars, ovars>>

\* accept, after a child: `if visitor.finished() { return visitor }`
AcceptReturn ==
    /\ dstate = "running"
    /\ Top.pc > 1
    /\ after_child_returns(visitor)
    /\ Return
    /\ UNCHANGED <<visitor, log, layout, win_size, qvars, gvars, ovars>>

\* accept, after the last child: visitor.visit_after(self, &ctx)
VisitAfter(answer) ==
    /\ dstate = "running"
    /\ Top.pc > Len(Children[Top.node])
    /\ ~(Top.pc > 1 /\ after_child_returns(visitor))
    /\ LET r == visit_after(visitor, Top.node, Top.ctx, answer)
       IN  /\ visitor' = r.d
           /\ log' = log \o <<Entry("visit_after", Top.node, "Pass")>>
                         \o (IF r.called
                             THEN <<Entry("handle_event", Top.node, r.answer)>>
                             ELSE <<>>)
    /\ Return
    /\ UNCHANGED <<layout, win_size, qvars, gvars, ovars>>

NextDispatch ==
    \/ \E event \in Events : PushEvent(event)
    \/ AcceptEnter
    \/ AcceptChild
    \/ AcceptReturn
    \/ \E answer \in Answers : VisitAfter(answer)

(***************************************************************************)
(* The derived accept under any visitor.  accept is generic over Visitor:  *)
(* here the visitor is a probe that records the calls it receives and may  *)
(* become finished in any visit_before or visit_after (`match` says        *)
(* whether it does); its contexts are derived as the dispatcher's are.     *)
(* The visitor value is [finished]; the log holds [cb, node, ctx].         *)
(***************************************************************************)
Probe(fin) == [finished |-> fin]
Call(cb, node, ctx) == [cb |-> cb, node |-> node, ctx |-> ctx]

\* accept is called on the window's child with a visitor that may already
\* be finished
VInit ==
    /\ layout \in Layouts
    /\ win_size = WindowSize
    /\ visitor \in {Probe(FALSE), Probe(TRUE)}
    /\ stack = <<Frame(Root, Some(size_rect(WindowSize)))>>
    /\ log = <<>>
    /\ dstate = "running"

\* accept, on entry: `if visitor.finished() { return visitor }`, then
\* `if let Some(ctx) = visitor.new_context(self, prev_ctx)`, then visit_before
ProbeEnter(match) ==
    /\ dstate = "running"
    /\ Top.pc = 0
    /\ IF visitor.finished
       THEN /\ Return
            /\ UNCHANGED <<visitor, log>>
       ELSE LET ctx == new_context(layout[Top.node], Top.prev_ctx)
            IN  IF ~ctx.some
                THEN /\ Return
                     /\ UNCHANGED <<visitor, log>>
                ELSE /\ visitor' = Probe(match)
                     /\ log' = Append(log, Call("visit_before", Top.node, ctx))
                     /\ stack' = [stack EXCEPT ![Len(stack)] = [@ EXCEPT !.ctx = ctx, !.pc = 1]]
                     /\ dstate' = dstate
    /\ UNCHANGED <<layout, win_size, qvars, gvars, ovars>>

\* mutant: a parent does not look at finished() after a child's accept
probe_after_child_ignores(v) == FALSE

\* `if visitor.finished() { return visitor }` after a child's accept
probe_after_child_returns(v) == v.finished

\* accept, the next child field: child.accept(visitor, &ctx); no check
\* stands between visit_before and the first child
ProbeChild ==
    /\ dstate = "running"
    /\ Top.pc >= 1
    /\ Top.pc <= Len(Children[Top.node])
    /\ ~(Top.pc > 1 /\ probe_after_child_returns(visitor))
    /\ stack' = Append([stack EXCEPT ![Len(stack)].pc = @ + 1],
                       Frame(Children[Top.node][Top.pc], Top.ctx))
    /\ UNCHANGED <<visitor, log, dstate, layout, win_size, qvars, gvars, ovars>>

\* accept, after a child: `if visitor.finished() { return visitor }`
ProbeReturn ==
    /\ dstate = "running"
    /\ Top.pc > 1
    /\ probe_after_child_returns(visitor)
    /\ Return
    /\ UNCHANGED <<visitor, log, layout, win_size, qvars, gvars, ovars>>

\* mutant: visit_after is reached without the check after the last child
ProbeAfterUnchecked(match) ==
    /\ dstate = "running"
    /\ Top.pc > Len(Children[Top.node])
    /\ visitor' = Probe(visitor.finished \/ match)
    /\ log' = Append(log, Call("visit_after", Top.node, Top.ctx))
    /\ Return
    /\ UNCHANGED <<layout, win_size, qvars, gvars, ovars>>

\* accept, after the last child field: visitor.visit_after(self, &ctx)
ProbeAfter(match) ==
    /\ dstate = "running"
    /\ Top.pc > Len(Children[Top.node])
    /\ ~(Top.pc > 1 /\ probe_after_child_returns(visitor))
    /\ visitor' = Probe(visitor.finished \/ match)
    /\ log' = Append(log, Call("visit_after", Top.node, Top.ctx))
    /\ Return
    /\ UNCHANGED <<layout, win_size, qvars, gvars, ovars>>

NextVisit ==
    \/ \E match \in BOOLEAN : ProbeEnter(match)
    \/ ProbeChild
    \/ ProbeReturn
    \/ \E match \in BOOLEAN : ProbeAfter(match)

(***************************************************************************)
(* Rect::clip_inside applied to two rectangles.                            *)
(***************************************************************************)
NotYet == [some |-> FALSE, pending |-> TRUE]

\* the rectangles tried: every position and size within the bounds, and the
\* pair of the documented example
Rects ==
    {Rect(x, y, w, h) : x \in -1..MaxCoord, y \in -1..MaxCoord,
                        w \in 0..MaxSide, h \in 0..MaxSide}
        \cup {Rect(0, 0, 100, 100), Rect(50, 50, 100, 100)}

CInit ==
    /\ rect_a \in Rects
    /\ rect_b \in Rects
    /\ clipped = NotYet

CIdle ==
    /\ rect_a = Rect(0, 0, 0, 0)
    /\ rect_b = Rect(0, 0, 0, 0)
    /\ clipped = NotYet

\* a.clip_inside(b)
ClipInside ==
    /\ clipped = NotYet
    /\ clipped' = clip_inside(rect_a, rect_b)
    /\ UNCHANGED <<rect_a, rect_b, qvars, gvars, dvars, ivars, mvars, pvars, nvars, wvars>>

NextClip == ClipInside

(***************************************************************************)
(* The process-wide id counter, src/widgets/src/draw/image.rs: threads     *)
(* call ImageId::new concurrently.  fetch_add is one atomic step; the      *)
(* return of the id is a step of its own.                                  *)
(***************************************************************************)
Threads == {"t1", "t2", "t3"}

\* the width of usize on the narrowest target Rust compiles for
UsizeBits == 16

\* static IMAGE_ID: AtomicUsize = AtomicUsize::new(1)
IMAGE_ID_new == 1

\* mutant: the counter is read and not advanced
fetch_add_load_only(cell, val) == [old |-> cell, new |-> cell]

\* AtomicUsize::fetch_add(val, Relaxed): the previous value, and the cell
\* advanced with wrap-around
fetch_add(cell, val) == [old |-> cell, new |-> (cell + val) % (2 ^ UsizeBits)]

IInit ==
    /\ IMAGE_ID = IMAGE_ID_new
    /\ id_pc = [t \in Threads |-> "idle"]
    /\ id_local = [t \in Threads |-> 0]
    /\ id_issued = <<>>
    /\ id_returned = <<>>

\* let id = IMAGE_ID.fetch_add(1, Ordering::Relaxed)
IdFetch(t) ==
    /\ id_pc[t] = "idle"
    /\ Len(id_issued) < MaxIds
    /\ LET r == fetch_add(IMAGE_ID, 1)
       IN  /\ IMAGE_ID' = r.new
           /\ id_local' = [id_local EXCEPT ![t] = r.old]
           /\ id_issued' = Append(id_issued, r.old)
    /\ id_pc' = [id_pc EXCEPT ![t] = "fetched"]
    /\ UNCHANGED <<id_returned, qvars, gvars, dvars, cvars, mvars, pvars, nvars, wvars>>

\* ImageId(id)
IdReturn(t) ==
    /\ id_pc[t] = "fetched"
    /\ id_returned' = Append(id_returned, id_local[t])
    /\ id_pc' = [id_pc EXCEPT ![t] = "idle"]
    /\ UNCHANGED <<IMAGE_ID, id_local, id_issued, qvars, gvars, dvars, cvars, mvars, pvars, nvars, wvars>>

NextIds ==
    \/ \E t \in Threads : IdFetch(t)
    \/ \E t \in Threads : IdReturn(t)

(***************************************************************************)
(* The derive macros ObjectId and Bounds, src/proc-macros/src/lib.rs and   *)
(* helpers.rs.  A declaration is a struct with its fields or an enum with  *)
(* its variants' fields and the variant a value is in; a field is its      *)
(* type name and its attributes.  A derived getter is described by the     *)
(* field it reads.                                                         *)
(***************************************************************************)
TypeNames == {"WidgetId", "Rect", "Position", "Size"}
AttrLists == {<<>>, <<"object_id">>, <<"bounds">>, <<"position">>, <<"size">>}

ShapeLists(shapes, n) == UNION {[1..m -> shapes] : m \in 0..n}

StructDecls ==
    {[kind |-> "struct", fields |-> sh] :
        sh \in ShapeLists([ty : TypeNames, attrs : AttrLists], MaxFields)}

\* enums of one or two variants with untagged fields, in one of the variants
EnumDecls ==
    LET lists == ShapeLists([ty : TypeNames, attrs : {<<>>}], MaxFields - 1)
    IN  {[kind |-> "enum", variants |-> vs, active |-> a] :
            vs \in UNION {[1..m -> lists] : m \in 1..2}, a \in 1..2}

Decls == StructDecls \cup {d \in EnumDecls : d.active <= Len(d.variants)}

Found(v) == [ok |-> TRUE, val |-> v]
FieldFindError(e) == [ok |-> FALSE, err |-> e]

\* the attributes of all fields in order, each with the index of its field
RECURSIVE attrs_of(_, _)
attrs_of(fields, k) ==
    IF k > Len(fields) THEN <<>>
    ELSE [j \in 1..Len(fields[k].attrs) |-> [i |-> k, name |-> fields[k].attrs[j]]]
            \o attrs_of(fields, k + 1)

\* the first loop of find_named_field / find_unnamed_field: the field that
\* carries the tag, 0 for none, and DuplicateAttr at a second tag
RECURSIVE scan_attrs(_, _, _)
scan_attrs(attrs, tag, found) ==
    IF attrs = <<>> THEN Found(found)
    ELSE IF Head(attrs).name = tag
         THEN IF found # 0 THEN FieldFindError("DuplicateAttr")
              ELSE scan_attrs(Tail(attrs), tag, Head(attrs).i)
         ELSE scan_attrs(Tail(attrs), tag, found)

\* the second loop: the field whose type name matches, 0 for none, and
\* Duplicate at a second match
RECURSIVE scan_types(_, _, _, _)
scan_types(fields, k, name, found) ==
    IF k > Len(fields) THEN Found(found)
    ELSE IF fields[k].ty = name
         THEN IF found # 0 THEN FieldFindError("Duplicate")
              ELSE scan_types(fields, k + 1, name, k)
         ELSE scan_types(fields, k + 1, name, found)

\* find_named_field / find_unnamed_field: the index of the backing field
find_field(fields, name, tag) ==
    IF fields = <<>> THEN FieldFindError("Empty")
    ELSE LET tagged == scan_attrs(attrs_of(fields, 1), tag, 0)
         IN  IF ~tagged.ok THEN tagged
             ELSE IF tagged.val # 0 THEN tagged
             ELSE LET typed == scan_types(fields, 1, name, 0)
                  IN  IF ~typed.ok THEN typed
                      ELSE IF typed.val # 0 THEN typed
                      ELSE FieldFindError("NotFound")

\* find_field_enum: the first field of every variant, Empty if one has none
find_field_enum(variants) ==
    IF \E k \in 1..Len(variants) : variants[k] = <<>>
    THEN FieldFindError("Empty")
    ELSE Found([k \in 1..Len(variants) |-> 1])

\* what a derived getter evaluates: a field of self, the getter of the
\* field bound by the pattern of the variant self is in, or the trait's
\* default get_bounds over get_position and get_size
SelfField(k) == [expr |-> "self.field", field |-> k]
Delegate(variant, k) == [expr |-> "a.get", variant |-> variant, field |-> k]
DefaultBounds(pos, size) == [expr |-> "Rect { pos, size }", pos |-> pos, size |-> size]

\* #[derive(ObjectId)]: what the derived get_id returns, or the error
object_id(d) ==
    IF d.kind = "struct"
    THEN LET f == find_field(d.fields, "WidgetId", "object_id")
         IN  IF f.ok THEN Found(SelfField(f.val)) ELSE f
    ELSE LET p == find_field_enum(d.variants)
         IN  IF p.ok THEN Found(Delegate(d.active, p.val[d.active])) ELSE p

\* #[derive(Bounds)]: what the derived get_bounds returns, or the error; the
\* Position and Size form gets get_bounds from the trait's default method
bounds(d) ==
    IF d.kind = "struct"
    THEN LET res_rect == find_field(d.fields, "Rect", "bounds")
         IN  IF res_rect.ok THEN Found(SelfField(res_rect.val))
             ELSE IF res_rect.err = "NotFound"
             THEN LET pos_res == find_field(d.fields, "Position", "position")
                      size_res == find_field(d.fields, "Size", "size")
                  IN  IF pos_res.ok /\ size_res.ok
                      THEN Found(DefaultBounds(SelfField(pos_res.val), SelfField(size_res.val)))
                      ELSE IF pos_res.ok THEN size_res
                      ELSE IF size_res.ok THEN pos_res
                      ELSE res_rect
             ELSE res_rect
    ELSE FieldFindError("unimplemented")

NoDerive == [macro |-> "none"]

MInit ==
    /\ decl \in Decls
    /\ derived = NoDerive

MIdle ==
    /\ decl = [kind |-> "struct", fields |-> <<>>]
    /\ derived = NoDerive

DeriveObjectId ==
    /\ derived = NoDerive
    /\ derived' = [macro |-> "ObjectId", out |-> object_id(decl)]
    /\ UNCHANGED <<decl, qvars, gvars, dvars, cvars, ivars, pvars, nvars, wvars>>

DeriveBounds ==
    /\ derived = NoDerive
    /\ derived' = [macro |-> "Bounds", out |-> bounds(decl)]
    /\ UNCHANGED <<decl, qvars, gvars, dvars, cvars, ivars, pvars, nvars, wvars>>

NextDerive ==
    \/ DeriveObjectId
    \/ DeriveBounds

(***************************************************************************)
(* The two walks over the widget tree that place a widget in the window:   *)
(* drawing, DrawContext::draw_child (core/src/draw/context.rs), and event  *)
(* dispatch, EventDispatcher::new_context.                                 *)
(***************************************************************************)
Position(x, y) == [x |-> x, y |-> y]

\* DrawContext::new
new_draw_context(viewport) ==
    [viewport |-> viewport, offset |-> Position(viewport.x, viewport.y),
     vp_orig |-> Position(0, 0)]

\* DrawContext::draw_child: the context the child is drawn with, None when
\* the child is not drawn
draw_child(dc, child_bounds, child_origin) ==
    LET child_vp == offset(child_bounds, dc.offset)
        viewport == clip_inside(child_vp, dc.viewport)
    IN  IF viewport.some
        THEN Some([viewport |-> viewport.val,
                   offset |-> Position(child_vp.x - child_origin.x,
                                       child_vp.y - child_origin.y),
                   vp_orig |-> child_origin])
        ELSE None

\* Window::draw, then Widget::draw of every widget on the way to n, each of
\* which draws its children with dc.draw_child
RECURSIVE draw_context_of(_)
draw_context_of(n) ==
    LET dc == IF n = Root THEN Some(new_draw_context(size_rect(win_size)))
              ELSE draw_context_of(Parent(n))
    IN  IF dc.some THEN draw_child(dc.val, layout[n], origins[n]) ELSE None

\* dispatch_event, then new_context of every widget on the way to n
RECURSIVE event_context_of(_)
event_context_of(n) ==
    new_context(layout[n],
                IF n = Root THEN Some(size_rect(win_size))
                ELSE event_context_of(Parent(n)))

\* the origins tried: widgets 1 and 2, which have children, are scrolled or not
Origins ==
    {<<o1, o2, Position(0, 0), Position(0, 0)>> :
        o1 \in {Position(0, 0), Position(1, 0)},
        o2 \in {Position(0, 0), Position(0, 2)}}

PInit ==
    /\ origins \in Origins
    /\ painted = NotYet
    /\ tested = NotYet

PIdle ==
    /\ origins = [n \in Nodes |-> Position(0, 0)]
    /\ painted = NotYet
    /\ tested = NotYet

\* Window::draw: the viewport of every widget, None for one that is not drawn
DrawWindow ==
    /\ painted = NotYet
    /\ painted' = [n \in Nodes |->
                    IF draw_context_of(n).some
                    THEN Some(draw_context_of(n).val.viewport) ELSE None]
    /\ UNCHANGED <<origins, tested, qvars, gvars, dvars, cvars, ivars, mvars, nvars, wvars>>

\* Window::push_event: the rectangle dispatch is given for every widget
HitTestWindow ==
    /\ tested = NotYet
    /\ tested' = [n \in Nodes |-> event_context_of(n)]
    /\ UNCHANGED <<origins, painted, qvars, gvars, dvars, cvars, ivars, mvars, nvars, wvars>>

NextPhases ==
    \/ DrawWindow
    \/ HitTestWindow

(***************************************************************************)
(* ButtonState and MouseButton, src/widgets/src/event.rs.  The u64 of a    *)
(* ButtonState is the set of its bits that are 1.                          *)
(***************************************************************************)
U64Bits == 64

Left == [kind |-> "Left"]
Middle == [kind |-> "Middle"]
Right == [kind |-> "Right"]
Other(n) == [kind |-> "Other", n |-> n]

\* the buttons tried: the named ones, Other(n) on a bit of a named button, on
\* a bit of its own, and with n past the width of the mask
Buttons == {Left, Middle, Right, Other(0), Other(3), Other(64)}

Mask(bits) == [panic |-> FALSE, bits |-> bits]
ShiftOverflow == [panic |-> TRUE, bits |-> {}]

\* MouseButton::mask.  `1u64 << n` with n >= 64 panics in a build with
\* overflow checks and shifts by n % 64 in a build without.
mask(button, overflow_checks) ==
    CASE button.kind = "Left" -> Mask({0})
      [] button.kind = "Middle" -> Mask({1})
      [] button.kind = "Right" -> Mask({2})
      [] button.kind = "Other" ->
            IF button.n >= U64Bits /\ overflow_checks THEN ShiftOverflow
            ELSE Mask({button.n % U64Bits})

\* ButtonState::default
no_buttons == {}

\* ButtonState::set: self.0 |= mask
set(state, m) == state \cup m.bits

\* ButtonState::unset: self.0 &= !mask
unset(state, m) == state \ m.bits

\* ButtonState::is_set: self.0 & mask != 0
is_set(state, m) == state \cap m.bits # {}

CallsMade == Cardinality({b \in Buttons : latest[b] # "none"})

SetButton(b) ==
    /\ \E oc \in BOOLEAN :
            /\ ~mask(b, oc).panic
            /\ button_state' = set(button_state, mask(b, oc))
    /\ latest' = [latest EXCEPT ![b] = "set"]
    /\ latest[b] # "none" \/ CallsMade < MaxCalls
    /\ UNCHANGED <<mod_state, last_pos, received, pushed,
                   qvars, gvars, dvars, cvars, ivars, mvars, pvars, wvars>>

UnsetButton(b) ==
    /\ \E oc \in BOOLEAN :
            /\ ~mask(b, oc).panic
            /\ button_state' = unset(button_state, mask(b, oc))
    /\ latest' = [latest EXCEPT ![b] = "unset"]
    /\ latest[b] # "none" \/ CallsMade < MaxCalls
    /\ UNCHANGED <<mod_state, last_pos, received, pushed,
                   qvars, gvars, dvars, cvars, ivars, mvars, pvars, wvars>>

NextButtons ==
    \/ \E b \in Buttons : SetButton(b)
    \/ \E b \in Buttons : UnsetButton(b)

(***************************************************************************)
(* GliumWindow::push_event, src/backend-glium/src/lib.rs, with             *)
(* translate_event, src/testapp/src/backend/event.rs.                      *)
(***************************************************************************)
ModState(shift, ctrl, alt, meta) == [shift |-> shift, ctrl |-> ctrl, alt |-> alt, meta |-> meta]
NoMods == ModState(FALSE, FALSE, FALSE, FALSE)
ModStates == {NoMods, ModState(TRUE, FALSE, FALSE, FALSE), ModState(FALSE, TRUE, TRUE, FALSE)}

\* the WindowEvents tried; Touch is one of those translate_event drops
WindowEvents ==
    {[kind |-> "ModifiersChanged", mods |-> m] : m \in ModStates}
        \cup {[kind |-> "MouseInput", state |-> st, button |-> b] :
                st \in {"Pressed", "Released"}, b \in {Left, Other(3), Other(64)}}
        \cup {[kind |-> "CursorMoved", position |-> Pointd(5, 5)],
              [kind |-> "KeyboardInput"],
              [kind |-> "Resized", size |-> [w |-> 4, h |-> 4]],
              [kind |-> "Touch"]}

\* translate_event
translate_event(event) ==
    CASE event.kind = "MouseInput" ->
            Some([kind |-> "MouseButton", state |-> event.state, button |-> event.button])
      [] event.kind = "CursorMoved" ->
            Some([kind |-> "MouseMovedPosition", pos |-> event.position])
      [] event.kind = "KeyboardInput" -> Some([kind |-> "Keyboard"])
      [] event.kind = "Resized" -> Some([kind |-> "Resized", size |-> event.size])
      [] OTHER -> None

\* EventContext::new
EventContext(pos, buttons, mods) == [last_pos |-> pos, button_state |-> buttons, mod_state |-> mods]

GliumWindow(mods, buttons, pos, size) ==
    [mod_state |-> mods, button_state |-> buttons, last_pos |-> pos, size |-> size]

Crashed == [some |-> FALSE, crashed |-> TRUE]

\* mutant: the context is built before the event updates the window
glium_push_event_context_first(w, event, overflow_checks) ==
    LET w1 == IF event.kind = "ModifiersChanged" THEN [w EXCEPT !.mod_state = event.mods]
              ELSE w
        ev == translate_event(event)
    IN  IF ~ev.some THEN [w |-> w1, pushed |-> None]
        ELSE IF ev.val.kind = "MouseButton" /\ mask(ev.val.button, overflow_checks).panic
        THEN [w |-> w1, pushed |-> Crashed]
        ELSE LET w2 ==
                    CASE ev.val.kind = "MouseMovedPosition" -> [w1 EXCEPT !.last_pos = ev.val.pos]
                      [] ev.val.kind = "MouseButton" /\ ev.val.state = "Pressed" ->
                            [w1 EXCEPT !.button_state =
                                set(@, mask(ev.val.button, overflow_checks))]
                      [] ev.val.kind = "MouseButton" /\ ev.val.state = "Released" ->
                            [w1 EXCEPT !.button_state =
                                unset(@, mask(ev.val.button, overflow_checks))]
                      [] ev.val.kind = "Resized" -> [w1 EXCEPT !.size = ev.val.size]
                      [] OTHER -> w1
             IN  [w |-> w2,
                  pushed |-> Some([event |-> ev.val,
                                   ctx |-> EventContext(w1.last_pos, w1.button_state,
                                                        w1.mod_state)])]

\* GliumWindow::push_event: the window after the call and the event and
\* context window.push_event was called with, None if it was not called
glium_push_event(w, event, overflow_checks) ==
    LET w1 == IF event.kind = "ModifiersChanged" THEN [w EXCEPT !.mod_state = event.mods]
              ELSE w
        ev == translate_event(event)
    IN  IF ~ev.some THEN [w |-> w1, pushed |-> None]
        ELSE IF ev.val.kind = "MouseButton" /\ mask(ev.val.button, overflow_checks).panic
        THEN [w |-> w1, pushed |-> Crashed]
        ELSE LET w2 ==
                    CASE ev.val.kind = "MouseMovedPosition" -> [w1 EXCEPT !.last_pos = ev.val.pos]
                      [] ev.val.kind = "MouseButton" /\ ev.val.state = "Pressed" ->
                            [w1 EXCEPT !.button_state =
                                set(@, mask(ev.val.button, overflow_checks))]
                      [] ev.val.kind = "MouseButton" /\ ev.val.state = "Released" ->
                            [w1 EXCEPT !.button_state =
                                unset(@, mask(ev.val.button, overflow_checks))]
                      [] ev.val.kind = "Resized" -> [w1 EXCEPT !.size = ev.val.size]
                      [] OTHER -> w1
             IN  [w |-> w2,
                  pushed |-> Some([event |-> ev.val,
                                   ctx |-> EventContext(w2.last_pos, w2.button_state,
                                                        w2.mod_state)])]

NInit ==
    /\ mod_state = NoMods
    /\ button_state = no_buttons
    /\ last_pos = Pointd(0, 0)
    /\ received = <<>>
    /\ pushed = None
    /\ latest = [b \in Buttons |-> "none"]

GliumPushEvent(event) ==
    /\ Len(received) < MaxEvents
    /\ pushed # Crashed
    /\ \E oc \in BOOLEAN :
            LET r == glium_push_event(GliumWindow(mod_state, button_state, last_pos, win_size),
                                      event, oc)
            IN  /\ mod_state' = r.w.mod_state
                /\ button_state' = r.w.button_state
                /\ last_pos' = r.w.last_pos
                /\ win_size' = r.w.size
                /\ pushed' = r.pushed
    /\ received' = Append(received, event)
    /\ UNCHANGED <<latest, layout, visitor, stack, log, dstate,
                   qvars, gvars, cvars, ivars, mvars, pvars, wvars>>

NextInput == \E event \in WindowEvents : GliumPushEvent(event)

(***************************************************************************)
(* Window::update, src/core/src/toplevel/window.rs.  The window's size is  *)
(* win_size and the bounds of its child are layout[Root].                  *)
(***************************************************************************)
Size(w, h) == [w |-> w, h |-> h]

DEFAULT_WINDOW_SIZE == Size(320, 240)

\* Size::is_zero_area
is_zero_area(size) == size.w = 0 \/ size.h = 0

\* Size::nonzero_or
nonzero_or(size, default) == IF is_zero_area(size) THEN default ELSE size

\* Rect::expand_to_origin, for a rectangle right of and below the origin
expand_to_origin(rect) == Rect(0, 0, rect.x + rect.w, rect.y + rect.h)

\* Rect::map_size with |s| s.nonzero_or(default)
map_size_nonzero_or(rect, default) ==
    LET sz == nonzero_or(Size(rect.w, rect.h), default)
    IN  Rect(rect.x, rect.y, sz.w, sz.h)

\* what the child's update_layout does with its bounds: nothing (the default
\* of (), Empty), or it takes the room right of and below its position
\* (TestWidget)
LayoutKinds == {"keep", "fill"}

saturating_sub(a, b) == IF a >= b THEN a - b ELSE 0

update_layout(kind, child_bounds, parent_rect) ==
    IF kind = "keep" THEN child_bounds
    ELSE Rect(child_bounds.x, child_bounds.y,
              saturating_sub(parent_rect.w, child_bounds.x),
              saturating_sub(parent_rect.h, child_bounds.y))

WindowOf(size, child_bounds) == [size |-> size, child |-> child_bounds]

\* mutant: the size is set to the content size whether it was set or not
update_always_sets_size(w, kind) ==
    LET initial == IF is_zero_area(w.size)
                   THEN map_size_nonzero_or(expand_to_origin(w.child), DEFAULT_WINDOW_SIZE)
                   ELSE size_rect(w.size)
        child == update_layout(kind, w.child, initial)
        content == expand_to_origin(child)
    IN  [w |-> WindowOf(nonzero_or(Size(content.w, content.h), DEFAULT_WINDOW_SIZE), child),
         parent_rect |-> initial]

\* Window::update: the window after the call and the rectangle the child
\* was laid out against
update(w, kind) ==
    IF is_zero_area(w.size)
    THEN LET initial == map_size_nonzero_or(expand_to_origin(w.child), DEFAULT_WINDOW_SIZE)
             child == update_layout(kind, w.child, initial)
             content == expand_to_origin(child)
             updated == nonzero_or(Size(content.w, content.h), DEFAULT_WINDOW_SIZE)
         IN  [w |-> WindowOf(updated, child), parent_rect |-> initial]
    ELSE [w |-> WindowOf(w.size, update_layout(kind, w.child, size_rect(w.size))),
          parent_rect |-> size_rect(w.size)]

\* the sizes a window is given: unset, one side zero, set
WindowSizes == {Size(0, 0), Size(0, MaxSize), Size(MaxSize - 1, 0), Size(MaxSize, MaxSize - 1)}

\* the bounds the child starts with: empty, one side zero, at and off the origin
ChildBounds == {Rect(0, 0, 0, 0), Rect(0, 0, 0, MaxSize - 1), Rect(0, 0, MaxSize, MaxSize),
                Rect(1, 2, MaxSize - 1, MaxSize - 2), Rect(MaxSize, 1, 0, 2)}

WIdle == wcall = NoCall

WInit ==
    /\ layout \in {[DIdleLayout EXCEPT ![Root] = b] : b \in ChildBounds}
    /\ win_size = Size(0, 0)
    /\ visitor = new_dispatcher
    /\ stack = <<>>
    /\ log = <<>>
    /\ dstate = "idle"
    /\ wcall = NoCall

\* Window::update
Update(kind) ==
    LET r == update(WindowOf(win_size, layout[Root]), kind)
    IN  /\ win_size' = r.w.size
        /\ layout' = [layout EXCEPT ![Root] = r.w.child]
        /\ wcall' = [op |-> "update", size |-> win_size, child |-> layout[Root],
                     parent_rect |-> r.parent_rect]
        /\ UNCHANGED <<visitor, stack, log, dstate, qvars, gvars, cvars, ivars, mvars,
                       pvars, nvars>>

\* Window::set_size
SetSize(size) ==
    /\ win_size' = size
    /\ wcall' = [op |-> "set_size", size |-> win_size]
    /\ UNCHANGED <<layout, visitor, stack, log, dstate, qvars, gvars, cvars, ivars, mvars,
                   pvars, nvars>>

NextWindow ==
    \/ \E kind \in LayoutKinds : Update(kind)
    \/ \E size \in WindowSizes : SetSize(size)

OIdle == CIdle /\ IInit /\ MIdle /\ PIdle /\ NInit /\ WIdle

InitQueue == QInit /\ GInit /\ DIdle /\ OIdle
InitVisit == QInit /\ GInit /\ VInit /\ OIdle
InitClip == QInit /\ GInit /\ DIdle /\ CInit /\ IInit /\ MIdle /\ PIdle /\ NInit /\ WIdle
InitIds == QInit /\ GInit /\ DIdle /\ CIdle /\ IInit /\ MIdle /\ PIdle /\ NInit /\ WIdle
InitDerive == QInit /\ GInit /\ DIdle /\ CIdle /\ IInit /\ MInit /\ PIdle /\ NInit /\ WIdle
InitButtons == QInit /\ GInit /\ DIdle /\ OIdle
InitInput == QInit /\ GInit /\ DIdle /\ OIdle
InitWindow == QInit /\ GInit /\ WInit /\ CIdle /\ IInit /\ MIdle /\ PIdle /\ NInit
InitPhases == QInit /\ GInit /\ DInit /\ CIdle /\ IInit /\ MIdle /\ PInit /\ NInit /\ WIdle
InitGlium == QInit /\ GInit /\ DIdle /\ OIdle
InitFrame == QInit /\ GInit /\ DIdle /\ OIdle
InitDispatch == QInit /\ GInit /\ DInit /\ OIdle

SpecQueue == InitQueue /\ [][NextQueue]_vars
SpecGlium == InitGlium /\ [][NextGlium]_vars
SpecFrame == InitFrame /\ [][NextFrame]_vars
SpecDispatch == InitDispatch /\ [][NextDispatch]_vars
SpecVisit == InitVisit /\ [][NextVisit]_vars
SpecClip == InitClip /\ [][NextClip]_vars
SpecIds == InitIds /\ [][NextIds]_vars
SpecDerive == InitDerive /\ [][NextDerive]_vars
SpecPhases == InitPhases /\ [][NextPhases]_vars
SpecButtons == InitButtons /\ [][NextButtons]_vars
SpecInput == InitInput /\ [][NextInput]_vars
SpecWindow == InitWindow /\ [][NextWindow]_vars

(***************************************************************************)
(* Claims about the core DrawQueue (SpecQueue).                            *)
(***************************************************************************)
SomeIndexOutOfRange(c) == \E k \in 1..Len(c.indices) : c.indices[k] >= Len(c.vertices)
SameRenderState(a, b) ==
    a.primitive = b.primitive /\ a.texture = b.texture /\ a.viewport = b.viewport
LastCmd == commands[Len(commands)]
QueueUnchanged == UNCHANGED <<vertices, indices, commands>>

\* C1 as stated: every push_prim call in which some index is >= the number of
\* supplied vertices returns IndexOutOfBounds and leaves the three buffers as
\* they were.  Fails for a call that supplies no vertices: it returns Ok.
C1_AnyOutOfRangePushFails ==
    [][(call'.op = "push_prim" /\ SomeIndexOutOfRange(call'))
        => (call'.result.tag = "IndexOutOfBounds" /\ QueueUnchanged)]_vars

\* C1 amended: a push_prim call that supplies at least one vertex and some
\* index >= the number of supplied vertices returns IndexOutOfBounds (naming
\* the first such index and the vertex count) and leaves the vertex buffer,
\* the index buffer and the command list as they were.
C1_OutOfRangePushRejectedAtomically ==
    [][(call'.op = "push_prim" /\ Len(call'.vertices) > 0 /\ SomeIndexOutOfRange(call'))
        => /\ call'.result.tag = "IndexOutOfBounds"
           /\ call'.result.nvert = Len(call'.vertices)
           /\ call'.result.idx >= call'.result.nvert
           /\ QueueUnchanged]_vars

C1_Witness ==
    /\ call.op = "push_prim"
    /\ Len(call.vertices) > 0
    /\ SomeIndexOutOfRange(call)
    /\ call.result.tag = "IndexOutOfBounds"
    /\ Len(vertices) > 0
    /\ Len(commands) > 0

\* C2 as stated: two consecutive successful non-empty pushes of the same
\* render state leave one Draw command for both, with idx_len the sum of the
\* two index counts and idx_offset the index-buffer length before the first.
\* Fails when the first push was itself merged into an older command.
C2_TwoPushesOneCommand ==
    (GoodPush(prev) /\ GoodPush(call) /\ SameRenderState(prev, call))
        => /\ Len(commands) = prev.pre.nc + 1
           /\ LastCmd.kind = "Draw"
           /\ LastCmd.idx_len = Len(prev.indices) + Len(call.indices)
           /\ LastCmd.idx_offset = prev.pre.ni

\* C2 amended: two consecutive successful non-empty pushes of the same render
\* state, the first of which started a new Draw command, leave exactly one
\* Draw command for both: the command list is one longer than before the
\* first push, its last command has idx_len = the sum of the two index counts
\* and idx_offset = the index-buffer length before the first push.
C2_TwoPushesCoalesce ==
    (GoodPush(prev) /\ GoodPush(call) /\ SameRenderState(prev, call)
        /\ call.pre.nc = prev.pre.nc + 1)
        => /\ Len(commands) = prev.pre.nc + 1
           /\ LastCmd.kind = "Draw"
           /\ SameRenderState(LastCmd, call)
           /\ LastCmd.idx_len = Len(prev.indices) + Len(call.indices)
           /\ LastCmd.idx_offset = prev.pre.ni

C2_Witness ==
    /\ GoodPush(prev) /\ GoodPush(call) /\ SameRenderState(prev, call)
    /\ call.pre.nc = prev.pre.nc + 1
    /\ prev.pre.ni > 0
    /\ Len(prev.indices) > 0 /\ Len(call.indices) > 0
    /\ LastCmd.idx_len = Len(prev.indices) + Len(call.indices)

\* the last command of cmds is a Draw command of the render state of call c
LastIsCompatible(cmds, c) ==
    /\ cmds # <<>>
    /\ cmds[Len(cmds)].kind = "Draw"
    /\ SameRenderState(cmds[Len(cmds)], c)

\* C3: a successful non-empty push whose render state differs from the last
\* command (or whose last command is a Clear, or on an empty list) appends one
\* new Draw command that starts at the current index-buffer length, and
\* leaves every existing command as it was.
C3_DifferentStateNewCommand ==
    [][(GoodPush(call') /\ call' # call /\ ~LastIsCompatible(commands, call'))
        => commands' = Append(commands,
                              CmdDraw(call'.primitive, Len(indices), Len(call'.indices),
                                      call'.texture, call'.viewport))]_vars

C3_Witness ==
    /\ GoodPush(call)
    /\ Len(commands) = call.pre.nc + 1
    /\ call.pre.nc > 0
    /\ commands[call.pre.nc].kind = "Draw"
    /\ commands[call.pre.nc].primitive = call.primitive
    /\ commands[call.pre.nc].texture = call.texture
    /\ commands[call.pre.nc].viewport # call.viewport
    /\ LastCmd.idx_offset = call.pre.ni
    /\ call.pre.ni > 0

\* C4: a push_prim call that supplies no vertices leaves the vertex buffer,
\* the index buffer and the command list unchanged, whatever else it supplies.
C4_EmptyPushIsNoOp ==
    [][(call'.op = "push_prim" /\ Len(call'.vertices) = 0) => QueueUnchanged]_vars

C4_Witness ==
    /\ call.op = "push_prim"
    /\ Len(call.vertices) = 0
    /\ call.indices = <<>>
    /\ call.result.tag = "Ok"
    /\ commands # <<>>
    /\ ~LastIsCompatible(commands, call)

\* C5: every Draw command's index range lies within the index buffer.
C5_IndexRangesInBounds ==
    \A k \in 1..Len(commands) :
        commands[k].kind = "Draw"
            => commands[k].idx_offset + commands[k].idx_len <= Len(indices)

C5_Witness ==
    /\ call.op = "push_prim"
    /\ call.result.tag = "IndexOutOfBounds"
    /\ Len(commands) = MaxCmds
    /\ \E k \in 1..Len(commands) : commands[k].kind = "Clear"
    /\ LastCmd.kind = "Draw"
    /\ LastCmd.idx_len > 0
    /\ LastCmd.idx_offset > 0
    /\ LastCmd.idx_offset + LastCmd.idx_len = Len(indices)

(***************************************************************************)
(* Claims about clear, in both queues (SpecGlium for the backend queue).   *)
(***************************************************************************)
\* C6: after clear the vertex buffer, the index buffer and the command list
\* are all empty, in the core queue and in the glium queue.  The glium clear
\* keeps its index buffer.
C6_ClearEmptiesAllBuffers ==
    /\ call.op = "clear" => (vertices = <<>> /\ indices = <<>> /\ commands = <<>>)
    /\ gcall.op = "clear" => (gvertices = <<>> /\ gindices = <<>> /\ gcommands = <<>>)

\* the core half of C6, which holds
C6_CoreClearEmptiesAllBuffers ==
    call.op = "clear" => (vertices = <<>> /\ indices = <<>> /\ commands = <<>>)

(***************************************************************************)
(* Claims about the event dispatcher (SpecDispatch).                       *)
(***************************************************************************)
\* the context the dispatcher derives for widget n: the clip-narrowed
\* absolute rectangle it hands to dispatch as abs_bounds, None when clipped
RECURSIVE CtxOf(_)
CtxOf(n) ==
    new_context(layout[n],
                IF n = Root THEN Some(size_rect(win_size)) ELSE CtxOf(Parent(n)))

EvKind == visitor.event.kind
EvPos == visitor.event.abs_pos
Dispatching == dstate # "idle"

\* the pointer position lies inside the rectangle widget n is hit-tested against
Hit(n) == CtxOf(n).some /\ inside(EvPos, CtxOf(n).val)

CalledOn(n) == \E i \in 1..Len(log) : log[i].cb = "handle_event" /\ log[i].node = n
VisitedAfter(n) == \E i \in 1..Len(log) : log[i].cb = "visit_after" /\ log[i].node = n
NoConsumer == \A i \in 1..Len(log) : log[i].answer # "Consumed"
IsHandle(e) == e.cb = "handle_event"
IsVisitAfter(e) == e.cb = "visit_after"
NodesOf(entries) == [i \in 1..Len(entries) |-> entries[i].node]

C8_KeyEventsAreBroadcast ==
    (Dispatching /\ EvKind \in KeyKinds)
        => /\ NodesOf(SelectSeq(log, IsHandle)) = NodesOf(SelectSeq(log, IsVisitAfter))
           /\ (dstate = "done" /\ NoConsumer)
                => \A n \in Nodes : CtxOf(n).some <=> CalledOn(n)

C8_Witness ==
    /\ dstate = "done"
    /\ EvKind = "Keyboard"
    /\ ~EvPos.finite
    /\ NoConsumer
    /\ NodesOf(SelectSeq(log, IsHandle)) = <<4, 2, 3, 1>>

\* C9: an event of any other kind reaches no handle_event, and its dispatch
\* yields no consumer.
C9_OtherKindsAreNotDelivered ==
    (Dispatching /\ EvKind \in OtherKinds)
        => /\ \A n \in Nodes : ~CalledOn(n)
           /\ visitor.result = 0

C9_Witness ==
    /\ dstate = "done"
    /\ EvKind = "PointerInside"
    /\ Hit(1) /\ Hit(2) /\ Hit(4)
    /\ \A n \in Nodes : VisitedAfter(n)
    /\ visitor.result = 0

\* a widget that would be offered the event if nobody consumed it
Eligible(n) ==
    /\ CtxOf(n).some
    /\ \/ EvKind \in KeyKinds
       \/ EvKind \in PointerKinds /\ Hit(n)

\* C10: dispatch stops at the first widget whose handle_event returns
\* Consumed: no handle_event call follows it and the result is that widget's
\* id; the result is none as long as nobody consumed; and when the dispatch
\* ends without a consumer, every eligible widget was offered the event once.
C10_StopsAtFirstConsumer ==
    Dispatching
        => /\ \A i \in 1..Len(log) :
                (IsHandle(log[i]) /\ log[i].answer = "Consumed")
                    => /\ \A j \in (i + 1)..Len(log) : ~IsHandle(log[j])
                       /\ visitor.result = log[i].node
           /\ NoConsumer => visitor.result = 0
           /\ (dstate = "done" /\ NoConsumer)
                => /\ \A n \in Nodes : Eligible(n) <=> CalledOn(n)
                   /\ \A i, j \in 1..Len(log) :
                        (IsHandle(log[i]) /\ IsHandle(log[j]) /\ log[i].node = log[j].node)
                            => i = j

C10_Witness ==
    /\ dstate = "done"
    /\ EvKind = "Keyboard"
    /\ Eligible(3) /\ Eligible(1)
    /\ ~CalledOn(3) /\ ~CalledOn(1)
    /\ SelectSeq(log, IsHandle) = <<Entry("handle_event", 4, "Pass"),
                                    Entry("handle_event", 2, "Consumed")>>
    /\ visitor.result = 2

C10_WitnessNoConsumer ==
    /\ dstate = "done"
    /\ EvKind = "MouseButton"
    /\ NoConsumer
    /\ visitor.result = 0
    /\ CalledOn(4) /\ CalledOn(2) /\ CalledOn(1) /\ ~CalledOn(3)
    /\ CtxOf(3).some

(***************************************************************************)
(* Claims about the traversal (SpecDispatch).                              *)
(***************************************************************************)
\* the widgets above n in the tree
RECURSIVE Ancestors(_)
Ancestors(n) == IF n = Root THEN {} ELSE {Parent(n)} \cup Ancestors(Parent(n))

NotifiedConsumed(n) == \E i \in 1..Len(log) : log[i].cb = "event_consumed" /\ log[i].node = n

\* C11: when a dispatch ends with a consumer, every ancestor of the consumer
\* has received event_consumed.  The derived accept returns as soon as a
\* child's accept has finished the visitor and calls nothing on the way out.
C11_AncestorsAreNotified ==
    (dstate = "done" /\ visitor.result # 0)
        => \A a \in Ancestors(visitor.result) : NotifiedConsumed(a)

\* the handle_event calls of the dispatch so far, in order
Handled == SelectSeq(log, IsHandle)

\* C12: in the dispatch of a pointer event, a widget's handle_event is never
\* called after that of one of its ancestors (the innermost widget under the
\* pointer comes first), and no widget is offered the event twice.
C12_InnermostFirstAtMostOnce ==
    (Dispatching /\ EvKind \in PointerKinds)
        => \A i, j \in 1..Len(Handled) :
                /\ Handled[i].node \in Ancestors(Handled[j].node) => j < i
                /\ Handled[i].node = Handled[j].node => i = j

C12_Witness ==
    /\ dstate = "done"
    /\ EvKind = "MouseMovedPosition"
    /\ Hit(4) /\ Hit(2) /\ Hit(1) /\ ~Hit(3)
    /\ NoConsumer
    /\ NodesOf(Handled) = <<4, 2, 1>>

(***************************************************************************)
(* Claims about the derived accept under any visitor (SpecVisit).          *)
(***************************************************************************)
Popped == stack' = SubSeq(stack, 1, Len(stack) - 1)

\* C13: once the visitor is finished it is never changed again; an accept
\* entered with it, and an accept that has a child's accept behind it, return
\* at once without a call on the visitor; and no call on any other node than
\* the one that finished the visitor is made.
C13_FinishedStopsTraversal ==
    [][(dstate = "running" /\ visitor.finished)
        => /\ visitor' = visitor
           /\ (Top.pc = 0 \/ Top.pc > 1) => (log' = log /\ Popped)
           /\ \A k \in (Len(log) + 1)..Len(log') :
                log # <<>> /\ log'[k].node = log[Len(log)].node]_vars

C13_Witness ==
    /\ dstate = "done"
    /\ visitor.finished
    /\ log = <<Call("visit_before", 1, CtxOf(1)), Call("visit_before", 2, CtxOf(2))>>
    /\ CtxOf(4).some /\ CtxOf(3).some

\* C14: a node for which new_context yields no context is pruned with its
\* subtree: accept returns the visitor as it was and calls nothing, so no
\* visit_before, visit_after or handle_event is ever recorded for a node whose
\* context, or that of one of its ancestors, is none.  (Stated on the log's
\* node field, so it reads the same under SpecDispatch and SpecVisit.)
C14_NoContextPrunesSubtree ==
    [][/\ \A k \in 1..Len(log') : CtxOf(log'[k].node).some
       /\ (dstate = "running" /\ Top.pc = 0
            /\ ~new_context(layout[Top.node], Top.prev_ctx).some)
                => (visitor' = visitor /\ log' = log /\ Popped)]_vars

C14_Witness ==
    /\ dstate = "done"
    /\ EvKind = "Keyboard"
    /\ ~CtxOf(2).some
    /\ clip_inside(offset(layout[4], size_rect(win_size)), size_rect(win_size)).some
    /\ NodesOf(Handled) = <<3, 1>>
    /\ NoConsumer

\* the widgets a struct holds in its tagged fields, read off the declaration
\* from its first field to its last
RECURSIVE DeclaredChildren(_)
DeclaredChildren(fields) ==
    IF fields = <<>> THEN <<>>
    ELSE (IF Head(fields).tag \in {"visit_child", "visit_iter"}
          THEN Head(fields).items ELSE <<>>) \o DeclaredChildren(Tail(fields))

\* the calls of a whole traversal below a node, for a visitor that never
\* finishes: visit_before, the children in declaration order, visit_after
RECURSIVE InOrder(_, _), InOrderAll(_, _)
InOrder(n, prev_ctx) ==
    LET ctx == new_context(layout[n], prev_ctx)
    IN  IF ~ctx.some THEN <<>>
        ELSE <<Call("visit_before", n, ctx)>>
                \o InOrderAll(DeclaredChildren(Fields[n]), ctx)
                \o <<Call("visit_after", n, ctx)>>
InOrderAll(cs, ctx) ==
    IF cs = <<>> THEN <<>> ELSE InOrder(Head(cs), ctx) \o InOrderAll(Tail(cs), ctx)

IsPrefix(a, b) == Len(a) <= Len(b) /\ SubSeq(b, 1, Len(a)) = a

\* C15: the calls accept makes are, in this order, visit_before on the node,
\* the traversals of its children in field-declaration order, and visit_after
\* on the node with the context visit_before got: the calls made so far are
\* always an initial part of that sequence, and all of it once the traversal
\* has ended with the visitor unfinished.
C15_BeforeChildrenAfterInOrder ==
    /\ IsPrefix(log, InOrder(Root, Some(size_rect(win_size))))
    /\ (dstate = "done" /\ ~visitor.finished)
            => log = InOrder(Root, Some(size_rect(win_size)))

C15_Witness ==
    /\ dstate = "done"
    /\ ~visitor.finished
    /\ NodesOf(log) = <<1, 2, 4, 4, 2, 3, 3, 1>>
    /\ log[2].ctx = log[5].ctx /\ log[2].ctx # log[1].ctx

(***************************************************************************)
(* Claims about Rect::clip_inside (SpecClip).                              *)
(***************************************************************************)
\* the unit columns and rows a rectangle covers
Cols(r) == {k \in r.x..(r.x + r.w - 1) : TRUE}
Rows(r) == {k \in r.y..(r.y + r.h - 1) : TRUE}

\* C16: clip_inside(A, B) is none exactly when A and B share no column or no
\* row (their intersection has no positive extent on that axis); otherwise it
\* is the rectangle covering exactly the columns and rows both cover, which
\* lies within A and within B; for (0,0,100,100) and (50,50,100,100) it is
\* (50,50,50,50).
C16_ClipInsideIsIntersection ==
    clipped # NotYet
        => /\ ~clipped.some <=> (Cols(rect_a) \cap Cols(rect_b) = {}
                                    \/ Rows(rect_a) \cap Rows(rect_b) = {})
           /\ clipped.some
                => /\ Cols(clipped.val) = Cols(rect_a) \cap Cols(rect_b)
                   /\ Rows(clipped.val) = Rows(rect_a) \cap Rows(rect_b)
                   /\ clipped.val.w > 0 /\ clipped.val.h > 0
           /\ (rect_a = Rect(0, 0, 100, 100) /\ rect_b = Rect(50, 50, 100, 100))
                => clipped = Some(Rect(50, 50, 50, 50))

C16_Witness ==
    /\ rect_a = Rect(0, 0, 100, 100)
    /\ rect_b = Rect(50, 50, 100, 100)
    /\ clipped = Some(Rect(50, 50, 50, 50))

C16_WitnessTouching ==
    /\ rect_a = Rect(0, 0, 2, 2)
    /\ rect_b = Rect(2, 1, 2, 2)
    /\ clipped = None

(***************************************************************************)
(* Claims about the id counter (SpecIds).                                  *)
(***************************************************************************)
\* C17: the ids drawn from the counter by any number of threads are pairwise
\* distinct, the first drawn is 1 and each is larger than every id drawn
\* before it; the ids returned are among them and are pairwise distinct too,
\* in whatever order the threads return.
C17_IdsAreDistinctAndIncreasing ==
    /\ id_issued # <<>> => id_issued[1] = 1
    /\ \A i, j \in 1..Len(id_issued) : i < j => id_issued[i] < id_issued[j]
    /\ \A i, j \in 1..Len(id_returned) : i # j => id_returned[i] # id_returned[j]
    /\ \A i \in 1..Len(id_returned) : \E j \in 1..Len(id_issued) : id_returned[i] = id_issued[j]

\* three threads hold ids at once and return them out of order
C17_Witness ==
    /\ Len(id_issued) = MaxIds
    /\ Len(id_returned) = MaxIds
    /\ id_returned[1] = 3 /\ id_returned[2] = 2 /\ id_returned[3] = 1
    /\ IMAGE_ID = MaxIds + 1

\* the field the claimed rule picks among the fields of a struct: the one
\* that carries the tag, else the single one whose type name matches; 0
\* where the rule names no field
Tagged(fields, tag) ==
    {k \in 1..Len(fields) : \E j \in 1..Len(fields[k].attrs) : fields[k].attrs[j] = tag}
Typed(fields, name) == {k \in 1..Len(fields) : fields[k].ty = name}
RuleField(fields, name, tag) ==
    IF Cardinality(Tagged(fields, tag)) = 1 THEN CHOOSE k \in Tagged(fields, tag) : TRUE
    ELSE IF Tagged(fields, tag) = {} /\ Cardinality(Typed(fields, name)) = 1
         THEN CHOOSE k \in Typed(fields, name) : TRUE
         ELSE 0

ObjectIdOnStruct ==
    (derived.macro = "ObjectId" /\ decl.kind = "struct"
        /\ RuleField(decl.fields, "WidgetId", "object_id") # 0)
    => derived.out = Found(SelfField(RuleField(decl.fields, "WidgetId", "object_id")))

BoundsOnStructRect ==
    (derived.macro = "Bounds" /\ decl.kind = "struct"
        /\ RuleField(decl.fields, "Rect", "bounds") # 0)
    => derived.out = Found(SelfField(RuleField(decl.fields, "Rect", "bounds")))

BoundsOnStructPositionSize ==
    (derived.macro = "Bounds" /\ decl.kind = "struct"
        /\ Tagged(decl.fields, "bounds") = {} /\ Typed(decl.fields, "Rect") = {}
        /\ RuleField(decl.fields, "Position", "position") # 0
        /\ RuleField(decl.fields, "Size", "size") # 0)
    => derived.out = Found(DefaultBounds(
            SelfField(RuleField(decl.fields, "Position", "position")),
            SelfField(RuleField(decl.fields, "Size", "size"))))

OnEnum(macro) ==
    (derived.macro = macro /\ decl.kind = "enum"
        /\ \A k \in 1..Len(decl.variants) : decl.variants[k] # <<>>)
    => derived.out = Found(Delegate(decl.active, 1))

\* C18: the derived get_id and get_bounds read the field the rule picks: the
\* tagged field, else the single field of the matching type, the first field
\* of the active variant for an enum, and Rect(position, size) from separate
\* Position and Size fields.
C18_DerivedGetterReadsRuleField ==
    /\ ObjectIdOnStruct
    /\ BoundsOnStructRect
    /\ BoundsOnStructPositionSize
    /\ OnEnum("ObjectId")
    /\ OnEnum("Bounds")

\* C18 without get_bounds on an enum: the part of the rule the macros keep.
C18_RuleOutsideEnumBounds ==
    /\ ObjectIdOnStruct
    /\ BoundsOnStructRect
    /\ BoundsOnStructPositionSize
    /\ OnEnum("ObjectId")

\* a tagged field won over an untagged field of the matching type
C18_WitnessTagWins ==
    /\ derived.macro = "Bounds" /\ decl.kind = "struct"
    /\ Tagged(decl.fields, "bounds") # {}
    /\ Typed(decl.fields, "Rect") \ Tagged(decl.fields, "bounds") # {}
    /\ derived.out.ok

\* Bounds was derived on an enum whose variants all have a first field
C18_WitnessEnumBounds ==
    /\ derived.macro = "Bounds" /\ decl.kind = "enum"
    /\ \A k \in 1..Len(decl.variants) : decl.variants[k] # <<>>

\* command k of the list is a Draw command of the render state of command j
SameStateCmds(j, k) ==
    /\ commands[j].kind = "Draw" /\ commands[k].kind = "Draw"
    /\ SameRenderState(commands[j], commands[k])

\* C19: a push_prim call leaves every command but the last as it was and
\* removes none; when the last command is not a Draw command of the pushed
\* state (a Clear, or a Draw of another state), a successful non-empty push
\* appends a new Draw command of the pushed state, whatever commands of that
\* state lie further back.
C19_OnlyLastCommandConsidered ==
    [][call'.op = "push_prim"
        => /\ Len(commands') >= Len(commands)
           /\ \A k \in 1..(Len(commands) - 1) : commands'[k] = commands[k]
           /\ (GoodPush(call') /\ ~LastIsCompatible(commands, call'))
                => /\ Len(commands') = Len(commands) + 1
                   /\ \A k \in 1..Len(commands) : commands'[k] = commands[k]
                   /\ LastIsCompatible(commands', call')]_vars

\* state A, then another state B, then A again: three Draw commands
C19_Witness ==
    /\ GoodPush(call)
    /\ Len(commands) = 3
    /\ call.pre.nc = 2
    /\ SameStateCmds(1, 3)
    /\ commands[2].kind = "Draw"
    /\ ~SameStateCmds(1, 2)

\* a Clear between two pushes of one state kept them apart
C19_WitnessClear ==
    /\ GoodPush(call)
    /\ Len(commands) = 3
    /\ call.pre.nc = 2
    /\ SameStateCmds(1, 3)
    /\ commands[2].kind = "Clear"

\* C20: a successful push_prim of at least one vertex appends the supplied
\* vertices in order, each moved by the viewport's position, to the vertex
\* buffer, and the supplied indices in order, each increased by the length the
\* vertex buffer had before the call, to the index buffer; what the two
\* buffers held before stays in place.
C20_AppendsTranslatedAndRebased ==
    [][GoodPush(call')
        => /\ vertices' = vertices \o
                [k \in 1..Len(call'.vertices) |->
                    <<call'.vertices[k][1] + call'.viewport.x,
                      call'.vertices[k][2] + call'.viewport.y>>]
           /\ indices' = indices \o
                [k \in 1..Len(call'.indices) |-> call'.indices[k] + Len(vertices)]]_vars

\* a push of two vertices and two indices into a viewport away from the
\* origin, on a queue that already held a vertex
C20_Witness ==
    /\ GoodPush(call)
    /\ call.pre.nv > 0
    /\ Len(call.vertices) = 2
    /\ Len(call.indices) = 2
    /\ call.viewport.x > 0 /\ call.viewport.y > 0
    /\ Len(vertices) = call.pre.nv + 2
    /\ indices[Len(indices)] = call.indices[2] + call.pre.nv

(***************************************************************************)
(* Claims about the execution of a queue (SpecFrame).                      *)
(***************************************************************************)
\* the queue a frame was drawn from and the frame, when one has just run
FrameRan == frame.ran \/ gframe.ran
FrameCmds == IF frame.ran THEN commands ELSE gcommands
FrameCalls == IF frame.ran THEN frame.calls ELSE gframe.calls
FrameWin == IF frame.ran THEN frame.win ELSE gframe.win

HasViewport(cmd) == "viewport" \in DOMAIN cmd

\* the commands with a viewport that reaches into the window
Shown == {k \in 1..Len(FrameCmds) :
            /\ HasViewport(FrameCmds[k])
            /\ clip_inside(FrameCmds[k].viewport, size_rect(FrameWin)).some}

\* the scissor of a call is the clipped viewport of its command, counted from
\* the bottom of the window as OpenGL does
ScissorIsClipped(c) ==
    LET vp == clip_inside(FrameCmds[c.cmd].viewport, size_rect(FrameWin)).val
    IN  /\ c.scissor.some
        /\ c.scissor.val.left = vp.x
        /\ c.scissor.val.width = vp.w
        /\ c.scissor.val.height = vp.h
        /\ c.scissor.val.bottom + vp.h + vp.y = FrameWin.h

IssuedOnceInOrder(ks) ==
    /\ \A k \in ks : \E i \in 1..Len(FrameCalls) : FrameCalls[i].cmd = k
    /\ \A i, j \in 1..Len(FrameCalls) :
            i < j => FrameCalls[i].cmd < FrameCalls[j].cmd

\* C21 as stated: every call of a frame is for a command whose clipped
\* viewport is not empty and has that clipped viewport as its scissor, and
\* each such command is issued once, in command-list order.  Fails for
\* draw_elements: a Clear of the core queue has no viewport and is issued as a
\* clear of the whole frame.
C21_EveryCallIsClipped ==
    FrameRan =>
        /\ \A i \in 1..Len(FrameCalls) :
                FrameCalls[i].cmd \in Shown /\ ScissorIsClipped(FrameCalls[i])
        /\ IssuedOnceInOrder(Shown)

\* C21 amended: a command that carries a viewport issues no call when its
\* viewport clipped against the window rectangle is empty and otherwise one
\* call with the clipped viewport as scissor; a command without a viewport
\* (a Clear of the core queue) issues one call without scissor; the calls are
\* in command-list order.
C21_ViewportCommandsAreClipped ==
    FrameRan =>
        LET plain == {k \in 1..Len(FrameCmds) : ~HasViewport(FrameCmds[k])}
        IN  /\ \A i \in 1..Len(FrameCalls) :
                    \/ FrameCalls[i].cmd \in Shown /\ ScissorIsClipped(FrameCalls[i])
                    \/ FrameCalls[i].cmd \in plain /\ ~FrameCalls[i].scissor.some
            /\ IssuedOnceInOrder(Shown \cup plain)

\* a frame of the glium queue in which one command was skipped and another
\* was issued with a scissor smaller than its viewport
C21_Witness ==
    /\ gframe.ran
    /\ Len(gcommands) >= 2
    /\ Len(gframe.calls) = Len(gcommands) - 1
    /\ \E i \in 1..Len(gframe.calls) :
            gframe.calls[i].scissor.val.width < gcommands[gframe.calls[i].cmd].viewport.w

\* a frame of the core queue with a clipped draw and a skipped draw
C21_WitnessDrawElements ==
    /\ frame.ran
    /\ \E k \in 1..Len(commands) : k \notin {frame.calls[i].cmd : i \in 1..Len(frame.calls)}
    /\ \E i \in 1..Len(frame.calls) : frame.calls[i].fn = "draw"

(***************************************************************************)
(* Claims about drawing and hit-testing the same tree (SpecPhases).        *)
(***************************************************************************)
BothPhasesRan == painted # NotYet /\ tested # NotYet

\* widget a is drawn and its viewport starts where its bounds start: nothing
\* of it is cut away on its left or top side
UncutTopLeft(a) ==
    /\ draw_context_of(a).some
    /\ LET dc == draw_context_of(a).val
       IN  /\ dc.viewport.x = dc.offset.x + dc.vp_orig.x
           /\ dc.viewport.y = dc.offset.y + dc.vp_orig.y

Unscrolled == \A n \in Nodes : origins[n] = Position(0, 0)

\* C22: whatever the viewport origins of its ancestors, a widget is
\* hit-tested against the rectangle it is drawn in (none in both phases when
\* it is not drawn); stated for widgets none of whose ancestors is cut on its
\* top or left side.  The dispatcher never reads viewport_origin.
C22_ScrolledWidgetHitWherePainted ==
    BothPhasesRan =>
        \A n \in Nodes :
            (\A a \in Ancestors(n) : UncutTopLeft(a)) => tested[n] = painted[n]

\* C26: with every viewport origin at zero, every widget is hit-tested
\* against the viewport rectangle it is drawn in, also below an ancestor that
\* is cut on its top or left side.  The dispatcher offsets a child by the
\* position of the parent's clipped viewport.
C26_HitRectEqualsDrawViewport ==
    (BothPhasesRan /\ Unscrolled) => \A n \in Nodes : tested[n] = painted[n]

\* what is left of the two claims: below ancestors that are neither scrolled
\* nor cut on their top or left side the two phases agree
PhasesAgreeBelowPlainAncestors ==
    BothPhasesRan =>
        \A n \in Nodes :
            (\A a \in Ancestors(n) : UncutTopLeft(a) /\ origins[a] = Position(0, 0))
                => tested[n] = painted[n]

(***************************************************************************)
(* C23: the context of every event GliumWindow::push_event dispatches      *)
(* carries the modifiers of the most recent ModifiersChanged received      *)
(* before it (all false if there was none); the button state that comes    *)
(* with a mouse-button event already has that press or release in it; and  *)
(* a ModifiersChanged is not itself dispatched.                            *)
(***************************************************************************)
RECURSIVE LastModifiers(_)
LastModifiers(evs) ==
    IF evs = <<>> THEN NoMods
    ELSE IF evs[Len(evs)].kind = "ModifiersChanged" THEN evs[Len(evs)].mods
    ELSE LastModifiers(SubSeq(evs, 1, Len(evs) - 1))

Dispatched == pushed.some

C23_ContextCarriesCurrentInput ==
    /\ Dispatched =>
            /\ pushed.val.ctx.mod_state = LastModifiers(received)
            /\ pushed.val.event.kind = "MouseButton" =>
                    \A oc \in BOOLEAN :
                        ~mask(pushed.val.event.button, oc).panic =>
                            (is_set(pushed.val.ctx.button_state,
                                    mask(pushed.val.event.button, oc))
                                <=> pushed.val.event.state = "Pressed")
    /\ (received # <<>> /\ received[Len(received)].kind = "ModifiersChanged") => ~Dispatched

C23_Witness ==
    /\ Dispatched
    /\ pushed.val.event.kind = "MouseButton"
    /\ pushed.val.event.state = "Pressed"
    /\ pushed.val.ctx.mod_state # NoMods
    /\ \E k \in 1..Len(received) : received[k].kind = "ModifiersChanged"

(***************************************************************************)
(* C28: ButtonState tracks every button independently: is_set(b) is true   *)
(* exactly when the latest set or unset call that named b was a set, for   *)
(* the named buttons and for Other(n) alike.                               *)
(***************************************************************************)
IsSet(b) == \E oc \in BOOLEAN : ~mask(b, oc).panic /\ is_set(button_state, mask(b, oc))

C28_EveryButtonTrackedIndependently ==
    \A b \in Buttons : IsSet(b) <=> latest[b] = "set"

\* the buttons whose mask no other button of Buttons shares
OwnBit(b) ==
    \A c \in Buttons \ {b} : \A oc, od \in BOOLEAN :
        mask(b, oc).bits \cap mask(c, od).bits = {}

ButtonsWithOwnBitTracked ==
    \A b \in Buttons : OwnBit(b) => (IsSet(b) <=> latest[b] = "set")

C28_WitnessAliased ==
    /\ latest[Other(0)] = "set"
    /\ latest[Left] = "none"
    /\ IsSet(Left)

(***************************************************************************)
(* C24: after any sequence of clear, push_clear and push_prim calls on the *)
(* core queue every value in the index buffer is smaller than the length   *)
(* of the vertex buffer.                                                   *)
(***************************************************************************)
C24_IndicesPointAtVertices ==
    \A k \in 1..Len(indices) : indices[k] < Len(vertices)

\* two accepted pushes with indices, the second rebased, then a rejected one
C24_Witness ==
    /\ call.op = "push_prim"
    /\ call.result.tag = "IndexOutOfBounds"
    /\ Len(indices) >= 2
    /\ \E k \in 1..Len(indices) : indices[k] = Len(vertices) - 1 /\ indices[k] > 0

(***************************************************************************)
(* C25: the index ranges of the Draw commands of the core queue, in        *)
(* command-list order, are contiguous and cover the index buffer exactly:  *)
(* the first starts at 0, each next one starts where the one before it     *)
(* ends, and the last ends at indices.len().                               *)
(***************************************************************************)
Draws == SelectSeq(commands, LAMBDA c : c.kind = "Draw")

RangeEnd(c) == c.idx_offset + c.idx_len

C25_DrawRangesTileIndexBuffer ==
    /\ Draws # <<>> => Draws[1].idx_offset = 0
    /\ \A k \in 1..(Len(Draws) - 1) : Draws[k + 1].idx_offset = RangeEnd(Draws[k])
    /\ Len(indices) = (IF Draws = <<>> THEN 0 ELSE RangeEnd(Draws[Len(Draws)]))

\* two Draw commands with a Clear between them, the second not at 0
C25_Witness ==
    /\ Len(commands) = 3
    /\ commands[1].kind = "Draw"
    /\ commands[2].kind = "Clear"
    /\ commands[3].kind = "Draw"
    /\ commands[1].idx_len = 2
    /\ commands[3].idx_offset = 2
    /\ commands[3].idx_len = 1

\* the queue was cleared while it held indices
C25_WitnessCleared ==
    /\ call.op = "clear"
    /\ call.pre.ni > 0

(***************************************************************************)
(* C29: when the visitor becomes finished inside the traversal of a child  *)
(* of node n, visit_after is not called on n nor on any ancestor of n:     *)
(* once the visitor has finished, the derived accept makes no further      *)
(* callback on any node that is still on the recursion stack.              *)
(***************************************************************************)
OnStack(n) == \E k \in 1..Len(stack) : stack[k].node = n

C29_WitnessLeaf ==
    /\ visitor.finished
    /\ Len(log) >= 2
    /\ log[Len(log)].cb = "visit_after"
    /\ log[Len(log) - 1].cb = "visit_before"
    /\ log[Len(log)].node = log[Len(log) - 1].node
    /\ dstate = "running"

(***************************************************************************)
(* C27: a widget whose context is none, which includes every widget of     *)
(* zero width or height, receives no event of any kind from the            *)
(* dispatcher, keyboard and character events included, and neither does    *)
(* any of its descendants.                                                 *)
(***************************************************************************)
ZeroArea(r) == r.w = 0 \/ r.h = 0

Called(n) == \E k \in 1..Len(log) : log[k].node = n

C27_NoContextNoEvent ==
    \A n \in Nodes :
        (\/ ZeroArea(layout[n])
         \/ ~CtxOf(n).some
         \/ \E a \in Ancestors(n) : ~CtxOf(a).some \/ ZeroArea(layout[a]))
            => ~Called(n)

\* a character event went to every widget but the one of zero width
C27_Witness ==
    /\ dstate = "done"
    /\ EvKind = "Character"
    /\ ZeroArea(layout[3])
    /\ NoConsumer
    /\ NodesOf(Handled) = <<4, 2, 1>>

(***************************************************************************)
(* C30: Window::update on a window whose size has zero area lays the child *)
(* out and then sets the size to the child's content size (its bounds      *)
(* expanded to the origin), or to DEFAULT_WINDOW_SIZE if that is still     *)
(* zero, so the size has non-zero area after any update; on a window whose *)
(* size has non-zero area it leaves the size as it is and lays the child   *)
(* out against it.                                                         *)
(***************************************************************************)
Updated == wcall.op = "update"

ContentSize == Size(layout[Root].x + layout[Root].w, layout[Root].y + layout[Root].h)

C30_WitnessSet ==
    /\ Updated
    /\ wcall.size = Size(MaxSize, MaxSize - 1)
    /\ win_size = wcall.size
    /\ ContentSize # win_size

====
